---- MODULE Spec2Model ----
(***************************************************************************)
(* A model of gioui.org/cmd/svg2gio (src/svg2gio/main.go): the converter   *)
(* from a subset of SVG to Gio drawing code.                               *)
(*                                                                         *)
(* Text is a sequence of one-character strings.  A number is a fixed-point *)
(* integer counting units of 10^-FracDigits; the inputs are integers and   *)
(* halves of small magnitude, for which the float32 arithmetic of the      *)
(* program is exact.  A Go int that may exceed 31 bits (a colour value) is *)
(* a sign and two 16-bit limbs.                                            *)
(***************************************************************************)
EXTENDS Integers, Sequences, FiniteSets, TLC

VARIABLES
    ctext,      \* SpecColor: the attribute text handed to Color.UnmarshalText
    cres,       \* SpecColor: its result, or Pending before the call
    pd,         \* SpecPath: the d attribute handed to printPathCommands
    pst,        \* SpecPath: the state of printPathCommands' loop
    phist,      \* SpecPath: history, per command read: its letter and op count
    walk,       \* Spec: the state of a run of convertAll
    flat,       \* Spec: the same run on the files without their group tags
    budget,     \* Spec: the tokens (end tags apart) the files may still hold
    arg,        \* the specifications of one call: the function and its input
    res         \* the specifications of one call: NotCalled, or what it returned

colorVars == <<ctext, cres>>
pathVars == <<pd, pst, phist>>
walkVars == <<walk, flat, budget>>
callVars == <<arg, res>>
vars == <<ctext, cres, pd, pst, phist, walk, flat, budget, arg, res>>

(***************************************************************************)
(* Text helpers.                                                           *)
(***************************************************************************)
SeqsUpTo(S, n) == UNION {[1..k -> S] : k \in 0..n}

Drop(s, n) == SubSeq(s, n + 1, Len(s))

HasPrefix(s, p) == Len(s) >= Len(p) /\ SubSeq(s, 1, Len(p)) = p

HasSuffix(s, p) == Len(s) >= Len(p) /\ SubSeq(s, Len(s) - Len(p) + 1, Len(s)) = p

Digits == <<"0", "1", "2", "3", "4", "5", "6", "7", "8", "9">>

Lower == <<"a", "b", "c", "d", "e", "f", "g", "h", "i", "j", "k", "l", "m",
           "n", "o", "p", "q", "r", "s", "t", "u", "v", "w", "x", "y", "z">>

Upper == <<"A", "B", "C", "D", "E", "F", "G", "H", "I", "J", "K", "L", "M",
           "N", "O", "P", "Q", "R", "S", "T", "U", "V", "W", "X", "Y", "Z">>

Range(s) == {s[i] : i \in 1..Len(s)}

IndexOf(s, c) == CHOOSE i \in 1..Len(s) : s[i] = c

DigitSet == Range(Digits)

LowerSet == Range(Lower)

UpperSet == Range(Upper)

LowerOf == [c \in UpperSet |-> Lower[IndexOf(Upper, c)]]

DigitOf == [c \in DigitSet |-> IndexOf(Digits, c) - 1]

LetterOf == [c \in LowerSet |-> IndexOf(Lower, c) + 9]

\* unicode.IsDigit, unicode.IsLower and unicode.ToLower on the bytes of a text
IsDigit(c) == c \in DigitSet

IsLower(c) == c \in LowerSet

ToLower(c) == IF c \in UpperSet THEN LowerOf[c] ELSE c

(***************************************************************************)
(* strconv.ParseInt(s, 16, 32) as Color.UnmarshalText calls it.  A value   *)
(* is [neg, hi, lo] standing for (-1)^neg * (hi * 2^16 + lo).              *)
(***************************************************************************)
Limb == 2^16

Int32(neg, hi, lo) == [neg |-> neg, hi |-> hi, lo |-> lo]

\* The digit a byte stands for in ParseUint, or 36 for a byte that is no digit.
DigitValue(c) ==
    IF IsDigit(c) THEN DigitOf[c]
    ELSE IF IsLower(ToLower(c)) THEN LetterOf[ToLower(c)]
    ELSE 36

RECURSIVE ParseUintLoop(_, _, _, _)
ParseUintLoop(s, i, hi, lo) ==
    IF i > Len(s) THEN [hi |-> hi, lo |-> lo, err |-> "nil"]
    ELSE LET d == DigitValue(s[i])
             lo1 == lo * 16 + d
             hi1 == hi * 16 + (lo1 \div Limb)
         IN  IF d >= 16 THEN [hi |-> 0, lo |-> 0, err |-> "syntax"]
             ELSE IF hi1 >= Limb
                  THEN [hi |-> Limb - 1, lo |-> Limb - 1, err |-> "range"]
             ELSE ParseUintLoop(s, i + 1, hi1, lo1 % Limb)

ParseUint(s) ==
    IF s = <<>> THEN [hi |-> 0, lo |-> 0, err |-> "syntax"]
    ELSE ParseUintLoop(s, 1, 0, 0)

\* the sign and the 32-bit range applied to the magnitude un
Signed(neg, un, half) ==
    IF un.err = "syntax"
    THEN [v |-> Int32(FALSE, 0, 0), err |-> "syntax"]
    ELSE IF ~neg /\ un.hi >= half
    THEN [v |-> Int32(FALSE, half - 1, Limb - 1), err |-> "range"]
    ELSE IF neg /\ (un.hi > half \/ (un.hi = half /\ un.lo > 0))
    THEN [v |-> Int32(TRUE, half, 0), err |-> "range"]
    ELSE [v |-> Int32(neg /\ (un.hi > 0 \/ un.lo > 0), un.hi, un.lo),
          err |-> "nil"]

ParseInt(s) ==
    IF s = <<>> THEN [v |-> Int32(FALSE, 0, 0), err |-> "syntax"]
    ELSE Signed(s[1] = "-",
                ParseUint(IF s[1] \in {"+", "-"} THEN Tail(s) ELSE s),
                Limb \div 2)

\* An implied alpha that is left out.
OrAlphaMissing(v) == v

\* i |= 0xff000000 on the two's complement int64 i.
OrAlpha(v) ==
    LET top == Limb - (Limb \div 256)   \* 0xff00
    IN  IF ~v.neg THEN Int32(FALSE, (v.hi % 256) + top, v.lo)
        ELSE \* the low 32 bits of -k are 2^32 - k; the bits above are all set
             LET uhi == IF v.lo = 0 THEN Limb - v.hi ELSE Limb - 1 - v.hi
                 ulo == IF v.lo = 0 THEN 0 ELSE Limb - v.lo
                 ohi == (uhi % 256) + top
             IN  IF ulo = 0 THEN Int32(TRUE, Limb - ohi, 0)
                 ELSE Int32(TRUE, Limb - 1 - ohi, Limb - ulo)

(***************************************************************************)
(* Color and Color.UnmarshalText.                                          *)
(***************************************************************************)
None == <<"n", "o", "n", "e">>

Color(set, value) == [Set |-> set, Value |-> value]

ZeroColor == Color(FALSE, Int32(FALSE, 0, 0))

\* The runes of the texts that are no ASCII: a text is the sequence of its
\* runes, and U+0085 and U+00A0 are two bytes each in UTF-8.
VerticalTab == ""

NextLine == ""

NoBreakSpace == " "

\* len(text): the number of bytes of the text t
RECURSIVE ByteLen(_)
ByteLen(t) ==
    IF t = <<>> THEN 0
    ELSE (IF Head(t) \in {NextLine, NoBreakSpace} THEN 2 ELSE 1) + ByteLen(Tail(t))

\* [c: the Color after the call, err: "nil", "invalid color", "syntax", "range"]
\* lines 111-120: r what strconv.ParseInt returned for the digits t
ColorParsed(t, r) ==
    [c |-> Color(TRUE, IF ByteLen(t) = 6 THEN OrAlpha(r.v) ELSE r.v), err |-> r.err]

\* c0 is the Color the method is called on: an invalid color returns before
\* any assignment to it (lines 107-109)
ColorUnmarshalText(c0, text) ==
    IF text = None THEN [c |-> ZeroColor, err |-> "nil"]
    ELSE IF ~HasPrefix(text, <<"#">>) THEN [c |-> c0, err |-> "invalid color"]
    ELSE ColorParsed(Tail(text), ParseInt(Tail(text)))

(***************************************************************************)
(* Numbers.  strconv.ParseFloat on the texts the program hands it here: an *)
(* optional sign, digits and dots.  Any other byte is a syntax error (the  *)
(* inputs hold no exponent, hexadecimal, inf or nan spelling).             *)
(***************************************************************************)
FracDigits == 1

Unit == 10^FracDigits

\* The fixed-point value of the integer k.
Num(k) == k * Unit

RECURSIVE Natural(_)
Natural(ds) ==
    IF ds = <<>> THEN 0
    ELSE Natural(SubSeq(ds, 1, Len(ds) - 1)) * 10 + DigitOf[ds[Len(ds)]]

\* The fraction digits fp in units of 10^-FracDigits (inputs hold no more digits).
FracUnits(fp) ==
    Natural(SubSeq(fp, 1, IF Len(fp) < FracDigits THEN Len(fp) ELSE FracDigits))
        * 10^(IF Len(fp) < FracDigits THEN FracDigits - Len(fp) ELSE 0)

ParseFloat(t) ==
    LET neg == t /= <<>> /\ t[1] = "-"
        body == IF t /= <<>> /\ t[1] \in {"+", "-"} THEN Tail(t) ELSE t
        dots == {i \in 1..Len(body) : body[i] = "."}
        ok == /\ \A i \in 1..Len(body) : IsDigit(body[i]) \/ body[i] = "."
              /\ Cardinality(dots) <= 1
              /\ \E i \in 1..Len(body) : IsDigit(body[i])
        dot == IF dots = {} THEN Len(body) + 1 ELSE CHOOSE i \in dots : TRUE
        mag == Natural(SubSeq(body, 1, dot - 1)) * Unit
                   + FracUnits(SubSeq(body, dot + 1, Len(body)))
    IN  IF ok THEN [x |-> IF neg THEN 0 - mag ELSE mag, err |-> "nil"]
        ELSE [x |-> 0, err |-> "syntax"]

RECURSIVE NumberEnd(_, _)
NumberEnd(s, n) ==
    IF n < Len(s) /\ (IsDigit(s[n + 1]) \/ s[n + 1] = ".") THEN NumberEnd(s, n + 1)
    ELSE n

\* lines 530-531: f what strconv.ParseFloat returned for s[:n]
Scanned(n, f) == [n |-> n, x |-> f.x, ok |-> f.err = "nil"]

\* lines 521-530: the end n of the number at the head of s
ScanNumber(s, n) == Scanned(n, ParseFloat(SubSeq(s, 1, n)))

parseFloat(s) == ScanNumber(s, NumberEnd(s, IF Len(s) > 0 /\ s[1] = "-" THEN 1 ELSE 0))

(***************************************************************************)
(* Points (f32.Point as <<x, y>>) and the instructions written to w.       *)
(***************************************************************************)
Pt(x, y) == <<x, y>>

Add(p, q) == <<p[1] + q[1], p[2] + q[2]>>

Sub(p, q) == <<p[1] - q[1], p[2] - q[2]>>

Mul(p, k) == <<p[1] * k, p[2] * k>>

Ins(op, args) == [op |-> op, args |-> args]

MoveTo(p) == Ins("MoveTo", p)

LineTo(p) == Ins("LineTo", p)

CubeTo(p0, p1, p2) == Ins("CubeTo", p0 \o p1 \o p2)

(***************************************************************************)
(* printPathCommands: the path-data compiler.                              *)
(***************************************************************************)
Seps == {" ", ",", "\t", "\n"}

\* unicode.IsSpace, which strings.TrimSpace and fmt's isSpace test: tab, line
\* feed, vertical tab (U+000B), form feed, carriage return, space, U+0085 and
\* U+00A0; the spaces above U+00FF stand in no text of the model
White == {" ", "\t", "\n", VerticalTab, "\f", "\r", NextLine, NoBreakSpace}

RECURSIVE TrimLeft(_, _)
TrimLeft(s, cut) ==
    IF s /= <<>> /\ s[1] \in cut THEN TrimLeft(Tail(s), cut) ELSE s

RECURSIVE TrimRight(_, _)
TrimRight(s, cut) ==
    IF s /= <<>> /\ s[Len(s)] \in cut THEN TrimRight(SubSeq(s, 1, Len(s) - 1), cut)
    ELSE s

TrimSpace(s) == TrimRight(TrimLeft(s, White), White)

CommandLetters == {"M", "m", "V", "v", "L", "l", "H", "h", "C", "c", "S", "s"}

NoErr == [kind |-> "nil", text |-> <<>>]

Err(kind, text) == [kind |-> kind, text |-> text]

\* The coordinate scan of lines 426-438.
RECURSIVE ScanCoords(_, _)
\* lines 428-437: r what parseFloat returned for the trimmed text c
ScanCoord(c, coords, r) ==
    IF c = <<>> \/ ~r.ok THEN [cmds |-> c, coords |-> coords]
    ELSE ScanCoords(Drop(c, r.n), Append(coords, r.x))

ScanTrimmed(c, coords) == ScanCoord(c, coords, parseFloat(c))

ScanCoords(cmds, coords) == ScanTrimmed(TrimLeft(cmds, Seps), coords)

\* The state before the first iteration (lines 402-405).
PathStart(d) ==
    [cmds |-> TrimSpace(d), pen |-> Pt(0, 0), initPoint |-> Pt(0, 0),
     ctrl2 |-> Pt(0, 0), out |-> <<>>, status |-> "run", err |-> NoErr]

Last(s, default) == IF s = <<>> THEN default ELSE s[Len(s)]

\* A close that draws the closing line without comparing pen and initPoint.
ClosePathAlways(st, rest) ==
    [st EXCEPT !.cmds = rest,
               !.out = Append(@, LineTo(st.initPoint)),
               !.pen = st.initPoint,
               !.ctrl2 = st.initPoint]

\* case 'Z', 'z' (lines 416-422)
ClosePath(st, rest) ==
    [st EXCEPT !.cmds = rest,
               !.out = IF st.pen /= st.initPoint THEN Append(@, LineTo(st.initPoint))
                       ELSE @,
               !.pen = st.initPoint,
               !.ctrl2 = st.initPoint]

\* case 'h' and case 'v' (lines 442-465)
AxisLines(st, op, rest, coords) ==
    LET rel == IsLower(op)
        ps == [k \in 1..Len(coords) |->
                 IF ToLower(op) = "h"
                 THEN Pt(coords[k] + (IF rel THEN st.pen[1] ELSE 0), st.pen[2])
                 ELSE Pt(st.pen[1], coords[k] + (IF rel THEN st.pen[2] ELSE 0))]
        newPen == Last(ps, st.pen)
    IN  [st EXCEPT !.cmds = rest,
                   !.out = @ \o [k \in 1..Len(ps) |-> LineTo(ps[k])],
                   !.pen = newPen,
                   !.ctrl2 = newPen]

\* Pairs of a relative command offset from the point before them.
RECURSIVE Rebased(_, _, _)
Rebased(coords, k, off) ==
    IF 2 * k > Len(coords) THEN <<>>
    ELSE <<Add(Pt(coords[2 * k - 1], coords[2 * k]), off)>>
            \o Rebased(coords, k + 1, Add(Pt(coords[2 * k - 1], coords[2 * k]), off))

PairPointsRebased(st, op, coords) ==
    IF IsLower(op) THEN Rebased(coords, 1, st.pen)
    ELSE [k \in 1..(Len(coords) \div 2) |-> Pt(coords[2 * k - 1], coords[2 * k])]

\* lines 470-482
PairPoints(st, op, coords) ==
    LET off == IF IsLower(op) THEN st.pen ELSE Pt(0, 0)
    IN  [k \in 1..(Len(coords) \div 2) |->
           Add(Pt(coords[2 * k - 1], coords[2 * k]), off)]

\* A move or line that leaves the pen at its first point.
MoveOrLineFirstPen(st, op, rest, points) ==
    [st EXCEPT !.cmds = rest,
               !.out = @ \o [k \in 1..Len(points) |->
                               IF ToLower(op) = "l" THEN LineTo(points[k])
                               ELSE MoveTo(points[k])],
               !.pen = IF points = <<>> THEN @ ELSE points[1],
               !.initPoint = IF ToLower(op) = "m" THEN Last(points, st.pen) ELSE @]

\* case 'm', 'l' (lines 485-496)
MoveOrLine(st, op, rest, points) ==
    LET newPen == Last(points, st.pen)
    IN  [st EXCEPT !.cmds = rest,
                   !.out = @ \o [k \in 1..Len(points) |->
                                   IF ToLower(op) = "l" THEN LineTo(points[k])
                                   ELSE MoveTo(points[k])],
                   !.pen = newPen,
                   !.initPoint = IF ToLower(op) = "m" THEN newPen ELSE @]

\* A cubic command that keeps the first control point as the reflection anchor.
CubicFirstControl(st, rest, points) ==
    LET g == Len(points) \div 3
        ops == [k \in 1..g |->
                  CubeTo(points[3 * k - 2], points[3 * k - 1], points[3 * k])]
    IN  IF Len(points) % 3 /= 0
        THEN [st EXCEPT !.cmds = rest, !.out = @ \o ops, !.status = "panic",
                        !.err = Err("index out of range", <<>>)]
        ELSE [st EXCEPT !.cmds = rest,
                        !.out = @ \o ops,
                        !.pen = IF g = 0 THEN @ ELSE points[3 * g],
                        !.ctrl2 = IF g = 0 THEN @ ELSE points[3 * g - 2]]

\* case 'c' (lines 497-503): points[i+1], points[i+2] of an incomplete group
\* are out of range, and the Go runtime panics.
Cubic(st, rest, points) ==
    LET g == Len(points) \div 3
        ops == [k \in 1..g |->
                  CubeTo(points[3 * k - 2], points[3 * k - 1], points[3 * k])]
    IN  IF Len(points) % 3 /= 0
        THEN [st EXCEPT !.cmds = rest, !.out = @ \o ops, !.status = "panic",
                        !.err = Err("index out of range", <<>>)]
        ELSE [st EXCEPT !.cmds = rest,
                        !.out = @ \o ops,
                        !.pen = IF g = 0 THEN @ ELSE points[3 * g],
                        !.ctrl2 = IF g = 0 THEN @ ELSE points[3 * g - 1]]

\* case 's' (lines 504-512): p1 reads pen and ctrl2, which the loop does not
\* update; points[i+1] of an incomplete group is out of range.
Smooth(st, rest, points) ==
    LET g == Len(points) \div 2
        p1 == Sub(Mul(st.pen, 2), st.ctrl2)
        ops == [k \in 1..g |-> CubeTo(p1, points[2 * k - 1], points[2 * k])]
    IN  IF Len(points) % 2 /= 0
        THEN [st EXCEPT !.cmds = rest, !.out = @ \o ops, !.status = "panic",
                        !.err = Err("index out of range", <<>>)]
        ELSE [st EXCEPT !.cmds = rest,
                        !.out = @ \o ops,
                        !.pen = IF g = 0 THEN @ ELSE points[2 * g],
                        !.ctrl2 = IF g = 0 THEN @ ELSE points[2 * g - 1]]

\* lines 484-515: the pair-based commands, points the offset pairs
PairCommand(st, op, rest, points) ==
    IF ToLower(op) \in {"m", "l"} THEN MoveOrLine(st, op, rest, points)
    ELSE IF ToLower(op) = "c" THEN Cubic(st, rest, points)
    ELSE Smooth(st, rest, points)

\* A command that drops the last of an odd number of coordinates.
CoordCommandUnchecked(st, cmds, sc) ==
    IF ToLower(cmds[1]) \in {"h", "v"} THEN AxisLines(st, cmds[1], sc.cmds, sc.coords)
    ELSE PairCommand(st, cmds[1], sc.cmds, PairPoints(st, cmds[1], sc.coords))

\* lines 439-482: a command letter with its coordinates sc, as scanned
CoordCommand(st, cmds, sc) ==
    IF ToLower(cmds[1]) \in {"h", "v"} THEN AxisLines(st, cmds[1], sc.cmds, sc.coords)
    ELSE IF Len(sc.coords) % 2 /= 0
    THEN [st EXCEPT !.cmds = sc.cmds, !.status = "error",
                    !.err = Err("odd number of coordinates in <path> data", cmds)]
    ELSE PairCommand(st, cmds[1], sc.cmds, PairPoints(st, cmds[1], sc.coords))

\* A loop that skips a letter that is no command.
CommandSkipUnknown(st, cmds) ==
    IF cmds = <<>> THEN [st EXCEPT !.cmds = cmds, !.status = "done"]
    ELSE IF cmds[1] \in {"Z", "z"} THEN ClosePath(st, Tail(cmds))
    ELSE IF cmds[1] \notin CommandLetters THEN [st EXCEPT !.cmds = Tail(cmds)]
    ELSE CoordCommand(st, cmds, ScanCoords(Tail(cmds), <<>>))

\* lines 408-438: the command at the head of cmds, the text left trimmed
Command(st, cmds) ==
    IF cmds = <<>> THEN [st EXCEPT !.cmds = cmds, !.status = "done"]
    ELSE IF cmds[1] \in {"Z", "z"} THEN ClosePath(st, Tail(cmds))
    ELSE IF cmds[1] \notin CommandLetters
    THEN [st EXCEPT !.cmds = Tail(cmds), !.status = "error",
                    !.err = Err("unknown <path> command", cmds)]
    ELSE CoordCommand(st, cmds, ScanCoords(Tail(cmds), <<>>))

\* One iteration of the loop of lines 406-516.
PathCommand(st) == Command(st, TrimLeft(st.cmds, Seps))

RECURSIVE RunPath(_)
RunPath(st) == IF st.status /= "run" THEN st ELSE RunPath(PathCommand(st))

printPathCommands(d) == RunPath(PathStart(d))

(***************************************************************************)
(* Points.UnmarshalText and Transform.UnmarshalText.                       *)
(***************************************************************************)
\* bytes.IndexAny(text, " ,"), 0-based, or -1
RECURSIVE IndexAny(_, _, _)
IndexAny(text, chars, i) ==
    IF i > Len(text) THEN 0 - 1
    ELSE IF text[i] \in chars THEN i - 1
    ELSE IndexAny(text, chars, i + 1)

\* [p: the list after the call, err]; the numbers are appended to p0.
RECURSIVE PointsUnmarshalText(_, _)
\* lines 59-63: f what strconv.ParseFloat returned for num
PointParsed(p0, num, rest, f) ==
    IF f.err /= "nil" THEN [p |-> p0, err |-> Err(f.err, num)]
    ELSE PointsUnmarshalText(Append(p0, f.x), rest)

\* lines 50-58: the number up to the separator at end, and the text after it
PointSplit(p0, text, end) ==
    IF end /= 0 - 1
    THEN PointParsed(p0, SubSeq(text, 1, end), Drop(text, end + 1),
                     ParseFloat(SubSeq(text, 1, end)))
    ELSE PointParsed(p0, text, <<>>, ParseFloat(text))

\* lines 46-49 on the text left trimmed
PointsTrimmed(p0, text) ==
    IF text = <<>> THEN [p |-> p0, err |-> NoErr]
    ELSE PointSplit(p0, text, IndexAny(text, {" ", ","}, 1))

PointsUnmarshalText(p0, text0) == PointsTrimmed(p0, TrimLeft(text0, {"\t", "\n"}))

\* f32.Affine2D by its Elems(): <<sx, hx, ox, hy, sy, oy>>
NewAffine2D(sx, hx, ox, hy, sy, oy) == <<sx, hx, ox, hy, sy, oy>>

Identity == NewAffine2D(Num(1), 0, 0, 0, Num(1), 0)

MatrixOpen == <<"m", "a", "t", "r", "i", "x", "(">>

\* A matrix whose numbers are handed to NewAffine2D in the order they are written.
MatrixAsWritten(text, p, err) ==
    IF err /= NoErr THEN [t |-> Identity, err |-> err]
    ELSE IF Len(p) /= 6
    THEN [t |-> Identity, err |-> Err("malformed transform matrix", text)]
    ELSE [t |-> NewAffine2D(p[1], p[2], p[3], p[4], p[5], p[6]), err |-> NoErr]

\* lines 75-82: p, err what Points.UnmarshalText returned for the numbers
MatrixParsed(text, p, err) ==
    IF err /= NoErr THEN [t |-> Identity, err |-> err]
    ELSE IF Len(p) /= 6
    THEN [t |-> Identity, err |-> Err("malformed transform matrix", text)]
    ELSE [t |-> NewAffine2D(p[1], p[3], p[5], p[2], p[4], p[6]), err |-> NoErr]

MatrixPoints(text, r) == MatrixParsed(text, r.p, r.err)

TransformUnmarshalText(text) ==
    IF HasPrefix(text, MatrixOpen) /\ HasSuffix(text, <<")">>)
    THEN MatrixPoints(text, PointsUnmarshalText(<<>>, SubSeq(text, 8, Len(text) - 1)))
    ELSE [t |-> Identity, err |-> Err("unsupported transform", text)]

(***************************************************************************)
(* The shape structs, their decoding (xml.Decoder.DecodeElement) and their *)
(* Path methods.  A start token is [kind, space, tag, attrs, inner]: attrs *)
(* the attributes in document order, inner the tags of the elements below  *)
(* it, which DecodeElement and Skip read past.                             *)
(***************************************************************************)
GroupTag == "g"

TitleTag == "title"

PolyTags == {"polygon", "polyline"}

ShapeTags == PolyTags \cup {"path", "line", "ellipse", "rect", "circle"}

NumFields ==
    {"x", "y", "width", "height", "cx", "cy", "r", "rx", "ry", "x1", "y1", "x2", "y2"}

\* the float32 fields of the struct decoded for tag
FieldsOf(tag) ==
    CASE tag = "line" -> {"x1", "y1", "x2", "y2"}
      [] tag = "ellipse" -> {"cx", "cy", "rx", "ry"}
      [] tag = "rect" -> {"x", "y", "width", "height"}
      [] tag = "circle" -> {"cx", "cy", "r"}
      [] OTHER -> {}

ZeroElem(tag) ==
    [tag |-> tag, Transform |-> Identity, Fill |-> ZeroColor, Stroke |-> ZeroColor,
     StrokeWidth |-> 0, D |-> <<>>, Points |-> <<>>, N |-> [f \in NumFields |-> 0],
     err |-> NoErr]

\* a float32 field: 0 for an empty value, otherwise
\* strconv.ParseFloat(strings.TrimSpace(value), 32)
DecodeFloat(value) ==
    IF value = <<>> THEN [x |-> 0, err |-> "nil"] ELSE ParseFloat(TrimSpace(value))

\* the Transform field, r what Transform.UnmarshalText returned
SetTransform(el, r) ==
    IF r.err = NoErr THEN [el EXCEPT !.Transform = r.t] ELSE [el EXCEPT !.err = r.err]

\* the Fill or Stroke field, r what Color.UnmarshalText returned
SetColor(el, a, r) ==
    IF a.name = "fill"
    THEN [el EXCEPT !.Fill = r.c,
                    !.err = IF r.err = "nil" THEN NoErr ELSE Err(r.err, a.value)]
    ELSE [el EXCEPT !.Stroke = r.c,
                    !.err = IF r.err = "nil" THEN NoErr ELSE Err(r.err, a.value)]

\* the StrokeWidth field or one of the float32 fields of the shape
SetFloat(el, a, f) ==
    IF f.err /= "nil" THEN [el EXCEPT !.err = Err(f.err, a.value)]
    ELSE IF a.name = "stroke-width" THEN [el EXCEPT !.StrokeWidth = f.x]
    ELSE [el EXCEPT !.N[a.name] = f.x]

\* the Points field, r what Points.UnmarshalText returned
SetPoints(el, r) == [el EXCEPT !.Points = r.p, !.err = r.err]

DecodeAttr(el, a) ==
    CASE a.name = "transform" -> SetTransform(el, TransformUnmarshalText(a.value))
      [] a.name = "fill" -> SetColor(el, a, ColorUnmarshalText(el.Fill, a.value))
      [] a.name = "stroke" -> SetColor(el, a, ColorUnmarshalText(el.Stroke, a.value))
      [] a.name = "stroke-width" -> SetFloat(el, a, DecodeFloat(a.value))
      [] a.name = "d" /\ el.tag = "path" -> [el EXCEPT !.D = a.value]
      [] a.name = "points" /\ el.tag \in PolyTags ->
           SetPoints(el, PointsUnmarshalText(el.Points, a.value))
      [] a.name \in FieldsOf(el.tag) -> SetFloat(el, a, DecodeFloat(a.value))
      [] OTHER -> el

RECURSIVE DecodeAttrs(_, _)
DecodeAttrs(el, attrs) ==
    IF attrs = <<>> \/ el.err /= NoErr THEN el
    ELSE DecodeAttrs(DecodeAttr(el, Head(attrs)), Tail(attrs))

DecodeElement(tok) == DecodeAttrs(ZeroElem(tok.tag), tok.attrs)

PathResult(out, status, err) == [out |-> out, status |-> status, err |-> err]

\* A polygon that draws the closing line without comparing last and pen.
PolyPathAlwaysClosed(el) ==
    LET ps == el.Points
        n == Len(ps)
        pen == Pt(ps[1], ps[2])
        lines == [k \in 1..((n - 2) \div 2) |-> LineTo(Pt(ps[2 * k + 1], ps[2 * k + 2]))]
    IN  IF n <= 1 THEN PathResult(<<>>, "done", NoErr)
        ELSE IF n % 2 /= 0
        THEN PathResult(<<MoveTo(pen)>> \o lines, "panic", Err("index out of range", <<>>))
        ELSE PathResult(<<MoveTo(pen)>> \o lines
                            \o (IF el.tag = "polygon" THEN <<LineTo(pen)>> ELSE <<>>),
                        "done", NoErr)

\* Poly.Path: Points[i+1] of an odd list is out of range, and the runtime panics.
PolyPath(el) ==
    LET ps == el.Points
        n == Len(ps)
        pen == Pt(ps[1], ps[2])
        lines == [k \in 1..((n - 2) \div 2) |-> LineTo(Pt(ps[2 * k + 1], ps[2 * k + 2]))]
        last == IF n >= 4 THEN Pt(ps[n - 1], ps[n]) ELSE pen
    IN  IF n <= 1 THEN PathResult(<<>>, "done", NoErr)
        ELSE IF n % 2 /= 0
        THEN PathResult(<<MoveTo(pen)>> \o lines, "panic", Err("index out of range", <<>>))
        ELSE PathResult(<<MoveTo(pen)>> \o lines
                            \o (IF el.tag = "polygon" /\ last /= pen THEN <<LineTo(pen)>>
                                ELSE <<>>),
                        "done", NoErr)

\* Path.Path: what printPathCommands wrote and returned
Compiled(st) == PathResult(st.out, st.status, st.err)

\* elem.Path(w) for each of the shape types
ElemPath(el) ==
    CASE el.tag \in PolyTags -> PolyPath(el)
      [] el.tag = "path" -> Compiled(printPathCommands(el.D))
      [] el.tag = "line" ->
           PathResult(<<MoveTo(Pt(el.N["x1"], el.N["y1"])),
                        LineTo(Pt(el.N["x2"], el.N["y2"]))>>, "done", NoErr)
      [] el.tag = "ellipse" ->
           PathResult(<<Ins("ellipse", <<el.N["cx"], el.N["cy"], el.N["rx"], el.N["ry"]>>)>>,
                      "done", NoErr)
      [] el.tag = "rect" ->
           PathResult(<<Ins("rect", <<el.N["x"], el.N["y"], el.N["width"], el.N["height"]>>)>>,
                      "done", NoErr)
      [] el.tag = "circle" ->
           PathResult(<<Ins("ellipse", <<el.N["cx"], el.N["cy"], el.N["r"], el.N["r"]>>)>>,
                      "done", NoErr)

ColorArgs(c) == <<IF c.Value.neg THEN 1 ELSE 0, c.Value.hi, c.Value.lo>>

\* lines 367-374 of parseSVG: what is written before elem.Path
BlockOpen(el) ==
    <<Ins("{", <<>>)>>
        \o (IF el.Transform /= Identity THEN <<Ins("Push", el.Transform)>> ELSE <<>>)
        \o <<Ins("Begin", <<>>)>>

\* A block that paints the stroke before the fill.
BlockCloseStrokeFirst(el) ==
    <<Ins("End", <<>>)>>
        \o (IF el.Stroke.Set
            THEN <<Ins("Stroke", ColorArgs(el.Stroke) \o <<el.StrokeWidth>>)>> ELSE <<>>)
        \o (IF el.Fill.Set THEN <<Ins("Fill", ColorArgs(el.Fill))>> ELSE <<>>)
        \o (IF el.Transform /= Identity THEN <<Ins("Pop", <<>>)>> ELSE <<>>)
        \o <<Ins("}", <<>>)>>

\* lines 378-388 of parseSVG: what is written after elem.Path
BlockClose(el) ==
    <<Ins("End", <<>>)>>
        \o (IF el.Fill.Set THEN <<Ins("Fill", ColorArgs(el.Fill))>> ELSE <<>>)
        \o (IF el.Stroke.Set
            THEN <<Ins("Stroke", ColorArgs(el.Stroke) \o <<el.StrokeWidth>>)>> ELSE <<>>)
        \o (IF el.Transform /= Identity THEN <<Ins("Pop", <<>>)>> ELSE <<>>)
        \o <<Ins("}", <<>>)>>

(***************************************************************************)
(* convertAll, convert, parse and parseSVG as steps on the state ws of one *)
(* run of the program: pc is the place of control, w the buffer.           *)
(***************************************************************************)
SvgSpace == "http://www.w3.org/2000/svg"

WalkStart(n) ==
    [pc |-> IF n = 0 THEN "format" ELSE "convert",
     nfiles |-> n, fi |-> 1, depth |-> 0,
     w |-> <<Ins("Header", <<>>)>>,        \* lines 125-134
     doc |-> <<>>,                         \* history: the tokens read from file fi
     compiled |-> 0,                       \* history: the files convert returned nil for
     result |-> "run", err |-> NoErr,
     written |-> FALSE, output |-> <<>>]

\* convertAll returns err (line 137): nothing is formatted or written.
ReturnErr(ws, w, e) ==
    [ws EXCEPT !.pc = "done", !.w = w, !.result = "error", !.err = e]

\* the deferred writes of parse (line 189) and convert (line 157)
Deferred(ws) == <<Ins("Stop", <<ws.fi>>), Ins("EndInit", <<>>)>>

\* A panic unwinds the process: the deferred writes run, no return is reached.
Panic(ws, w, e) ==
    [ws EXCEPT !.pc = "done", !.w = w \o Deferred(ws), !.result = "panic", !.err = e]

\* convert up to os.Open (lines 147-162)
convert(ws, opened) ==
    LET w == Append(ws.w, Ins("Decl", <<ws.fi>>))
    IN  IF opened THEN [ws EXCEPT !.pc = "root", !.w = w, !.doc = <<>>, !.depth = 0]
        ELSE ReturnErr([ws EXCEPT !.doc = <<>>], Append(w, Ins("EndInit", <<>>)),
                       Err("open", <<>>))

AttrValues(tok, name) ==
    [k \in 1..Cardinality({i \in 1..Len(tok.attrs) : tok.attrs[i].name = name}) |->
        tok.attrs[CHOOSE i \in 1..Len(tok.attrs) :
                    /\ tok.attrs[i].name = name
                    /\ Cardinality({j \in 1..i : tok.attrs[j].name = name}) = k].value]

\* the loop over tok.Attr of lines 190-202
RECURSIVE ViewBoxes(_, _, _)
\* A view box that is taken from the first four of any longer list of numbers.
ViewBoxFirstFour(ws, w, values, p, err) ==
    IF err /= NoErr \/ Len(p) < 4
    THEN ReturnErr(ws, w \o Deferred(ws),
                   Err("invalid viewBox attribute", Head(values)))
    ELSE ViewBoxes(ws, w \o <<Ins("ViewBox.Min", <<p[1], p[2]>>),
                               Ins("ViewBox.Max", <<p[3], p[4]>>)>>, Tail(values))

\* lines 193-200: p, err what Points.UnmarshalText returned for the first value
ViewBox(ws, w, values, p, err) ==
    IF err /= NoErr \/ Len(p) /= 4
    THEN ReturnErr(ws, w \o Deferred(ws),
                   Err("invalid viewBox attribute", Head(values)))
    ELSE ViewBoxes(ws, w \o <<Ins("ViewBox.Min", <<p[1], p[2]>>),
                               Ins("ViewBox.Max", <<p[3], p[4]>>)>>, Tail(values))

ViewBoxPoints(ws, w, values, r) == ViewBox(ws, w, values, r.p, r.err)

ViewBoxes(ws, w, values) ==
    IF values = <<>> THEN [ws EXCEPT !.pc = "svg", !.w = w, !.depth = 0]
    ELSE ViewBoxPoints(ws, w, values, PointsUnmarshalText(<<>>, Head(values)))

\* One iteration of the loop of parse (lines 172-205) on the token tok.
parse(ws0, tok) ==
    LET ws == [ws0 EXCEPT !.doc = Append(@, tok)]
        fail(e) == ReturnErr(ws, Append(ws.w, Ins("EndInit", <<>>)), e)
    IN  CASE tok.kind = "eof" -> fail(Err("unexpected end of file", <<>>))
          [] tok.kind = "error" -> fail(Err("xml", <<>>))
          [] tok.kind = "start" ->
               IF tok.tag /= "svg" THEN fail(Err("invalid SVG root", <<tok.tag>>))
               ELSE IF tok.space /= SvgSpace
               THEN fail(Err("unsupported SVG namespace", <<tok.space>>))
               ELSE ViewBoxes(ws, Append(ws.w, Ins("Record", <<>>)),
                              AttrValues(tok, "viewBox"))
          [] OTHER -> ws

\* convert returned nil: on to the next file, or to format.Source.
ConvertDone(ws) ==
    [ws EXCEPT !.w = @ \o Deferred(ws),
               !.compiled = @ + 1,
               !.fi = @ + 1,
               !.pc = IF ws.fi = ws.nfiles THEN "format" ELSE "convert"]

\* A convertAll that goes on to the next file after a failed convert.
ConvertFailedIgnored(ws, w, e) ==
    [ws EXCEPT !.w = w \o Deferred(ws),
               !.err = e,
               !.fi = @ + 1,
               !.pc = IF ws.fi = ws.nfiles THEN "format" ELSE "convert"]

\* convert returned an error to convertAll (lines 136-138).
ConvertFailed(ws, w, e) == ReturnErr(ws, w \o Deferred(ws), e)

\* case xml.EndElement (lines 313-314): parseSVG returns nil, to the group's
\* parseSVG (line 327) or, from the outermost call, to parse.
EndElement(ws) ==
    IF ws.depth > 0 THEN [ws EXCEPT !.depth = @ - 1] ELSE ConvertDone(ws)

\* A group whose attributes are decoded as a shape's are.
GroupDecoded(ws, tok) ==
    IF DecodeAttrs(ZeroElem(tok.tag), tok.attrs).err /= NoErr
    THEN ConvertFailed(ws, ws.w, DecodeAttrs(ZeroElem(tok.tag), tok.attrs).err)
    ELSE [ws EXCEPT !.depth = @ + 1]

\* case "g" (lines 325-330): the start token is dropped, its attributes unread.
Group(ws, tok) == [ws EXCEPT !.depth = @ + 1]

\* A walker that reads past the elements it does not know.
UnsupportedSkipped(ws, tok) == ws

\* default (lines 358-359)
Unsupported(ws, tok) == ConvertFailed(ws, ws.w, Err("unsupported tag", <<tok.tag>>))

\* A block that is closed whatever elem.Path returned.
ShapeBlockLenient(ws, el, open, r) ==
    [ws EXCEPT !.w = open \o r.out \o BlockClose(el)]

\* lines 367-388: the block of a painted shape, r the outcome of elem.Path(w)
ShapeBlock(ws, el, open, r) ==
    IF r.status = "panic" THEN Panic(ws, open \o r.out, r.err)
    ELSE IF r.status = "error" THEN ConvertFailed(ws, open \o r.out, r.err)
    ELSE [ws EXCEPT !.w = open \o r.out \o BlockClose(el)]

\* A walker without the test of fill and stroke.
ShapeAlwaysPainted(ws, el) ==
    IF el.err /= NoErr THEN ConvertFailed(ws, ws.w, el.err)
    ELSE [ws EXCEPT !.w = @ \o BlockOpen(el) \o ElemPath(el).out \o BlockClose(el)]

\* lines 362-366: the error of DecodeElement, then the test of fill and stroke
ShapeDecoded(ws, el) ==
    IF el.err /= NoErr THEN ConvertFailed(ws, ws.w, el.err)
    ELSE IF ~el.Fill.Set /\ ~el.Stroke.Set THEN ws
    ELSE ShapeBlock(ws, el, ws.w \o BlockOpen(el), ElemPath(el))

\* lines 361-388 for a shape element
Shape(ws, tok) == ShapeDecoded(ws, DecodeElement(tok))

\* One iteration of the loop of parseSVG (lines 303-389) on the token tok.
parseSVG(ws0, tok) ==
    LET ws == [ws0 EXCEPT !.doc = Append(@, tok)]
    IN  CASE tok.kind \in {"eof", "error"} ->
               ConvertFailed(ws, ws.w, Err(IF tok.kind = "eof"
                                           THEN "unexpected end of <svg> element"
                                           ELSE "xml", <<>>))
          [] tok.kind = "end" -> EndElement(ws)
          [] tok.kind = "start" ->
               IF tok.tag = GroupTag THEN Group(ws, tok)
               ELSE IF tok.tag = TitleTag THEN ws
               ELSE IF tok.tag \in ShapeTags THEN Shape(ws, tok)
               ELSE Unsupported(ws, tok)
          [] OTHER -> ws

\* what os.WriteFile left in the output file on returning an error: the
\* first n instructions of w (none when the file was not opened, all of them
\* when Close failed)
WriteFailed(ws, n) ==
    [ws EXCEPT !.pc = "done", !.result = "error", !.err = Err("write", <<>>),
               !.output = SubSeq(ws.w, 1, IF n < Len(ws.w) THEN n ELSE Len(ws.w))]

\* lines 140-144: format.Source, then os.WriteFile; formatted and wrote say
\* whether the two succeed, n how much of the buffer a failed os.WriteFile
\* wrote.  written records that os.WriteFile returned nil.
formatAndWrite(ws, formatted, wrote, n) ==
    IF ~formatted THEN ReturnErr(ws, ws.w, Err("format", <<>>))
    ELSE IF ~wrote THEN WriteFailed(ws, n)
    ELSE [ws EXCEPT !.pc = "done", !.result = "ok", !.written = TRUE, !.output = ws.w]

(***************************************************************************)
(* The documents of Spec: the root tokens and the element tokens that the  *)
(* xml.Decoder may hand to parse and parseSVG.                             *)
(***************************************************************************)
\* #ff0000
Red == <<"#", "f", "f", "0", "0", "0", "0">>

\* #0000ff
Blue == <<"#", "0", "0", "0", "0", "f", "f">>

\* red
ColorName == <<"r", "e", "d">>

\* matrix(1,0,0,1,5,5)
Matrix == <<"m", "a", "t", "r", "i", "x", "(", "1", ",", "0", ",", "0", ",", "1", ",", "5", ",", "5", ")">>

\* translate(1,2)
Translate == <<"t", "r", "a", "n", "s", "l", "a", "t", "e", "(", "1", ",", "2", ")">>

\* M1,1 2,1Z
DClosed == <<"M", "1", ",", "1", " ", "2", ",", "1", "Z">>

\* M1,1X
DUnknown == <<"M", "1", ",", "1", "X">>

\* M1
DOdd == <<"M", "1">>

\* C1,1
DShortCubic == <<"C", "1", ",", "1">>

\* A1
DArc == <<"A", "1">>

\* 0,0 1,0 1,1
Triangle == <<"0", ",", "0", " ", "1", ",", "0", " ", "1", ",", "1">>

\* 0 0 24 24
ViewBox4 == <<"0", " ", "0", " ", "2", "4", " ", "2", "4">>

\* 0 0 24
ViewBox3 == <<"0", " ", "0", " ", "2", "4">>

One == <<"1">>

Two == <<"2">>

\* 2 followed by U+00A0, as r="2&#160;" gives it
TwoPadded == <<"2", NoBreakSpace>>

Attr(name, value) == [name |-> name, value |-> value]

Start(space, tag, attrs, inner) ==
    [kind |-> "start", space |-> space, tag |-> tag, attrs |-> attrs, inner |-> inner]

Other(kind) == [kind |-> kind, space |-> "", tag |-> "", attrs |-> <<>>, inner |-> <<>>]

Elem(tag, attrs) == Start(SvgSpace, tag, attrs, <<>>)

Geometry == <<Attr("x", One), Attr("y", Two), Attr("width", Two), Attr("height", One)>>

RootTokens ==
    { Start(SvgSpace, "svg", <<>>, <<>>),
      Start(SvgSpace, "svg", <<Attr("viewBox", ViewBox4)>>, <<>>),
      Start(SvgSpace, "svg", <<Attr("viewBox", ViewBox3)>>, <<>>),
      Start(SvgSpace, "html", <<>>, <<>>),
      Start("", "svg", <<>>, <<>>),
      Other("chardata"), Other("eof"), Other("error") }

GroupTokens ==
    { Elem("g", <<>>),
      Elem("g", <<Attr("transform", Translate), Attr("fill", ColorName)>>) }

ShapeTokens ==
    { Elem("rect", Geometry \o <<Attr("fill", Red)>>),
      Elem("rect", Geometry),
      Elem("rect", <<Attr("fill", None), Attr("stroke", None)>>),
      Start(SvgSpace, "rect", <<Attr("stroke", Blue), Attr("stroke-width", Two),
                                Attr("transform", Matrix), Attr("fill", Red)>>,
            <<"text">>),
      Elem("rect", <<Attr("fill", Red), Attr("fill", ColorName)>>),
      Elem("path", <<Attr("fill", Red), Attr("d", DClosed)>>),
      Elem("path", <<Attr("fill", Red), Attr("d", DUnknown)>>),
      Elem("path", <<Attr("d", DOdd), Attr("stroke", Blue)>>),
      Elem("path", <<Attr("fill", Red), Attr("d", DShortCubic)>>),
      Elem("path", <<Attr("d", DArc)>>),
      Elem("circle", <<Attr("cx", One), Attr("cy", One), Attr("r", TwoPadded),
                       Attr("fill", Red)>>),
      Elem("polygon", <<Attr("points", Triangle), Attr("fill", Red)>>) }

OtherTokens ==
    { Start(SvgSpace, "title", <<>>, <<"text">>),
      Elem("text", <<Attr("fill", Red)>>),
      Other("chardata"), Other("error") }

EndToken == Other("end")

(***************************************************************************)
(* SpecColor: Color.UnmarshalText applied to every text of ColorTexts.     *)
(***************************************************************************)
MaxColorLen == 8

ColorChars == {"-", "0", "f", "A", "g"}

MaxNameLen == 2

Pending == [c |-> ZeroColor, err |-> "pending"]

\* "#" and digits that end in U+00A0: six bytes in five runes, seven in six
ColorExamples ==
    { <<"#", "0", "0", "0", "0", NoBreakSpace>>,
      <<"#", "0", "0", "0", "0", "0", NoBreakSpace>> }

\* "none", or "#" and at most MaxColorLen of ColorChars, or a short text
\* without "#", or one of ColorExamples
ColorInit ==
    /\ \/ ctext = None
       \/ \E k \in 0..MaxColorLen : \E b \in [1..k -> ColorChars] : ctext = <<"#">> \o b
       \/ \E k \in 0..MaxNameLen : \E b \in [1..k -> ColorChars] : ctext = b
       \/ ctext \in ColorExamples
    /\ cres = Pending

ColorIdle == ctext = <<>> /\ cres = Pending

UnmarshalColor ==
    /\ cres = Pending
    /\ cres' = ColorUnmarshalText(ZeroColor, ctext)
    /\ UNCHANGED ctext

(***************************************************************************)
(* SpecPath: printPathCommands run command by command on                   *)
(* the examples of the specification and on every sequence of at most     *)
(* MaxCmds commands, each a letter followed by one of ArgTexts.            *)
(***************************************************************************)
MaxCmds == 2

PathLetters == CommandLetters \cup {"Z", "z", "A"}

ArgTexts ==
    { <<>>,
      <<"5">>,
      <<"1", ",", "2">>,
      <<"1", ",", "2", " ", "3", ",", "4">>,
      <<"1", ",", "1", " ", "2", ",", "1", " ", "3", ",", "0">>,
      <<".", "5", "-", "1">> }

Chunks == {<<l>> \o a : l \in PathLetters, a \in ArgTexts}

RECURSIVE Flatten(_)
Flatten(ss) == IF ss = <<>> THEN <<>> ELSE Head(ss) \o Flatten(Tail(ss))

\* M0,0 L10,0 L10,10 Z
ExClose ==
    <<"M", "0", ",", "0", " ", "L", "1", "0", ",", "0", " ",
      "L", "1", "0", ",", "1", "0", " ", "Z">>

\* M0,0 C1,1 2,1 3,0 S4,1 5,0
ExSmooth ==
    <<"M", "0", ",", "0", " ", "C", "1", ",", "1", " ", "2", ",", "1", " ",
      "3", ",", "0", " ", "S", "4", ",", "1", " ", "5", ",", "0">>

\* M1,1 2,2 3,3 Z
ExMove ==
    <<"M", "1", ",", "1", " ", "2", ",", "2", " ", "3", ",", "3", " ", "Z">>

\* S1,1 2,2 3,3 4,4
ExSmoothTwo ==
    <<"S", "1", ",", "1", " ", "2", ",", "2", " ", "3", ",", "3", " ", "4",
      ",", "4">>

\* M1,2 c1,0 2,0 3,0 1,1 2,1 3,1
ExRelCubic ==
    <<"M", "1", ",", "2", " ", "c", "1", ",", "0", " ", "2", ",", "0", " ",
      "3", ",", "0", " ", "1", ",", "1", " ", "2", ",", "1", " ", "3", ",",
      "1">>

\* M1,2 s1,0 2,0 1,1 2,1
ExRelSmooth ==
    <<"M", "1", ",", "2", " ", "s", "1", ",", "0", " ", "2", ",", "0", " ",
      "1", ",", "1", " ", "2", ",", "1">>

\* M1,2 h1 2 v1 2
ExRelLines ==
    <<"M", "1", ",", "2", " ", "h", "1", " ", "2", " ", "v", "1", " ", "2">>

\* M1,2 a1,1 0 0 1 2,2 L3,3
ExArc ==
    <<"M", "1", ",", "2", " ", "a", "1", ",", "1", " ", "0", " ", "0", " ",
      "1", " ", "2", ",", "2", " ", "L", "3", ",", "3">>

\* M1,1 L2,2 between U+0085 and a form feed
ExPadded ==
    <<NextLine, "M", "1", ",", "1", " ", "L", "2", ",", "2", "\f">>

PathExamples ==
    {ExClose, ExClose \o <<" ", "Z">>, ExClose \o <<"z">>, ExSmooth,
     ExMove, ExSmoothTwo, ExRelCubic, ExRelSmooth, ExRelLines, ExArc, ExPadded}

PathInit ==
    /\ \/ pd \in PathExamples
       \/ \E k \in 0..MaxCmds : \E cs \in [1..k -> Chunks] : pd = Flatten(cs)
    /\ pst = PathStart(pd)
    /\ phist = <<>>

PathIdle == pd = <<>> /\ pst = PathStart(<<>>) /\ phist = <<>>

\* The command letter the next iteration reads, or "" at the end of the text.
NextOp(st) ==
    LET cmds == TrimLeft(st.cmds, Seps) IN IF cmds = <<>> THEN "" ELSE cmds[1]

PathLoop ==
    /\ pst.status = "run"
    /\ pst' = PathCommand(pst)
    /\ phist' = IF NextOp(pst) = "" THEN phist
                ELSE Append(phist, [op |-> NextOp(pst),
                                    n |-> Len(PathCommand(pst).out) - Len(pst.out)])
    /\ UNCHANGED pd

(***************************************************************************)
(* The generated function ellipse (the constant funcs, lines 547-580).  A  *)
(* float32 here is NaN, an infinity, or the real (n + k * q) / d for the   *)
(* constant q = 4 * (sqrt(2) - 1) / 3, in the units of Num: the arithmetic *)
(* is exact on the finite values, and IEEE 754 on division by zero, the    *)
(* infinities and NaN.                                                     *)
(***************************************************************************)
RECURSIVE Gcd(_, _)
Gcd(a, b) == IF b = 0 THEN a ELSE Gcd(b, a % b)

Abs(n) == IF n < 0 THEN 0 - n ELSE n

NaN == [cls |-> "nan"]

Inf(neg) == [cls |-> "inf", neg |-> neg]

\* (n + k * q) / d in lowest terms, d > 0
Reduced(n, k, d, g) == [cls |-> "fin", n |-> n \div g, k |-> k \div g, d |-> d \div g]

Fin(n, k, d) ==
    IF d < 0 THEN Reduced(0 - n, 0 - k, 0 - d, Gcd(Gcd(Abs(n), Abs(k)), Abs(d)))
    ELSE Reduced(n, k, d, Gcd(Gcd(Abs(n), Abs(k)), Abs(d)))

\* the float32 of a decoded attribute
Float(n) == Fin(n, 0, 1)

\* the constant q of line 554
Kappa == Fin(0, 1, 1)

IsZero(x) == x.cls = "fin" /\ x.n = 0 /\ x.k = 0

\* the sign bit of a finite value that has no part in q, or of an infinity
Negative(x) == IF x.cls = "inf" THEN x.neg ELSE x.n < 0

FNeg(x) ==
    IF x.cls = "nan" THEN NaN
    ELSE IF x.cls = "inf" THEN Inf(~x.neg)
    ELSE Fin(0 - x.n, 0 - x.k, x.d)

FAdd(x, y) ==
    IF x.cls = "nan" \/ y.cls = "nan" THEN NaN
    ELSE IF x.cls = "inf" /\ y.cls = "inf" THEN (IF x.neg = y.neg THEN x ELSE NaN)
    ELSE IF x.cls = "inf" THEN x
    ELSE IF y.cls = "inf" THEN y
    ELSE Fin(x.n * y.d + y.n * x.d, x.k * y.d + y.k * x.d, x.d * y.d)

FSub(x, y) == FAdd(x, FNeg(y))

\* of two finite factors one at most has a part in q (r * q, curve * scale)
FMul(x, y) ==
    IF x.cls = "nan" \/ y.cls = "nan" THEN NaN
    ELSE IF x.cls = "inf" \/ y.cls = "inf"
    THEN (IF IsZero(x) \/ IsZero(y) THEN NaN ELSE Inf(Negative(x) /= Negative(y)))
    ELSE Fin(x.n * y.n, x.n * y.k + x.k * y.n, x.d * y.d)

\* radius.Y / r: the operands have no part in q
FDiv(x, y) ==
    IF x.cls = "nan" \/ y.cls = "nan" THEN NaN
    ELSE IF y.cls = "inf" THEN (IF x.cls = "inf" THEN NaN ELSE Float(0))
    ELSE IF x.cls = "inf" THEN Inf(x.neg /= (y.n < 0))
    ELSE IF IsZero(y) THEN (IF IsZero(x) THEN NaN ELSE Inf(x.n < 0))
    ELSE Fin(x.n * y.d, 0, x.d * y.n)

\* lines 558-579: the five calls on p
EllipseOps(cx, cy, r, curve, rs, cs) ==
    <<MoveTo(Pt(cx, FSub(cy, rs))),
      CubeTo(Pt(FAdd(cx, curve), FSub(cy, rs)), Pt(FAdd(cx, r), FSub(cy, cs)),
             Pt(FAdd(cx, r), cy)),
      CubeTo(Pt(FAdd(cx, r), FAdd(cy, cs)), Pt(FAdd(cx, curve), FAdd(cy, rs)),
             Pt(cx, FAdd(cy, rs))),
      CubeTo(Pt(FSub(cx, curve), FAdd(cy, rs)), Pt(FSub(cx, r), FAdd(cy, cs)),
             Pt(FSub(cx, r), cy)),
      CubeTo(Pt(FSub(cx, r), FSub(cy, cs)), Pt(FSub(cx, curve), FSub(cy, rs)),
             Pt(cx, FSub(cy, rs)))>>

\* lines 548-556: r, scale and curve; rs is r*scale and cs is curve*scale
EllipseScaled(cx, cy, r, curve, scale) ==
    EllipseOps(cx, cy, r, curve, FMul(r, scale), FMul(curve, scale))

\* func ellipse(p *clip.Path, center, radius f32.Point)
ellipse(center, radius) ==
    EllipseScaled(center[1], center[2], radius[1], FMul(radius[1], Kappa),
                  FDiv(radius[2], radius[1]))

\* the call the generated code makes for the line Ellipse.Path or Circle.Path
\* wrote: args the four numbers of that line
EllipseCall(args) ==
    ellipse(Pt(Float(args[1]), Float(args[2])), Pt(Float(args[3]), Float(args[4])))

(***************************************************************************)
(* The specifications of one call: arg names a function and holds its      *)
(* input, res is NotCalled until the call has returned.                    *)
(***************************************************************************)
NotCalled == [done |-> FALSE]

Returned(val) == [done |-> TRUE, val |-> val]

CallIdle == arg = [fn |-> "none"] /\ res = NotCalled

(***************************************************************************)
(* Spec: convertAll on at most MaxFiles files that hold at most MaxTokens  *)
(* tokens in all (end tags not counted), groups nested MaxDepth deep; an   *)
(* os.WriteFile that fails has written at most MaxPartial instructions of  *)
(* the buffer, or all of them.                                             *)
(***************************************************************************)
MaxFiles == 2

MaxTokens == 4

MaxDepth == 2

MaxPartial == 2

WalkInit ==
    /\ \E n \in 0..MaxFiles : walk = WalkStart(n)
    /\ flat = walk
    /\ budget = MaxTokens

WalkIdle == walk = WalkStart(0) /\ flat = walk /\ budget = 0

Convert ==
    /\ walk.pc = "convert"
    /\ \E opened \in BOOLEAN :
          /\ walk' = convert(walk, opened)
          /\ flat' = convert(flat, opened)
    /\ UNCHANGED <<budget, colorVars, pathVars, callVars>>

Parse ==
    /\ walk.pc = "root"
    /\ budget > 0
    /\ \E tok \in RootTokens :
          /\ walk' = parse(walk, tok)
          /\ flat' = parse(flat, tok)
    /\ budget' = budget - 1
    /\ UNCHANGED <<colorVars, pathVars, callVars>>

\* a start tag, character data or a decoder error; flat is not given the
\* start tag of a group
ParseSVG ==
    /\ walk.pc = "svg"
    /\ budget > 0
    /\ \E tok \in ShapeTokens \cup OtherTokens
                  \cup (IF walk.depth < MaxDepth THEN GroupTokens ELSE {}) :
          /\ walk' = parseSVG(walk, tok)
          /\ flat' = IF tok \in GroupTokens THEN flat ELSE parseSVG(flat, tok)
    /\ budget' = budget - 1
    /\ UNCHANGED <<colorVars, pathVars, callVars>>

\* an end tag; flat is not given the end tag of a group
ParseSVGEnd ==
    /\ walk.pc = "svg"
    /\ walk' = parseSVG(walk, EndToken)
    /\ flat' = IF walk.depth > 0 THEN flat ELSE parseSVG(flat, EndToken)
    /\ UNCHANGED <<budget, colorVars, pathVars, callVars>>

\* the outcomes of format.Source and os.WriteFile on the buffer w: a failed
\* os.WriteFile stopped after at most MaxPartial instructions, or failed in
\* Close after all of them
WriteOutcomes(w) ==
    {[formatted |-> FALSE, wrote |-> FALSE, n |-> 0],
     [formatted |-> TRUE, wrote |-> TRUE, n |-> Len(w)]}
        \cup {[formatted |-> TRUE, wrote |-> FALSE, n |-> k] :
                 k \in {j \in 0..Len(w) : j <= MaxPartial \/ j = Len(w)}}

FormatAndWrite ==
    /\ walk.pc = "format"
    /\ \E o \in WriteOutcomes(walk.w) :
          /\ walk' = formatAndWrite(walk, o.formatted, o.wrote, o.n)
          /\ flat' = formatAndWrite(flat, o.formatted, o.wrote, o.n)
    /\ UNCHANGED <<budget, colorVars, pathVars, callVars>>

Next == Convert \/ Parse \/ ParseSVG \/ ParseSVGEnd \/ FormatAndWrite

Init == WalkInit /\ ColorIdle /\ PathIdle /\ CallIdle

Spec == Init /\ [][Next]_vars

PathNext == PathLoop /\ UNCHANGED <<colorVars, walkVars, callVars>>

InitPath == PathInit /\ ColorIdle /\ WalkIdle /\ CallIdle

SpecPath == InitPath /\ [][PathNext]_vars

ColorNext == UnmarshalColor /\ UNCHANGED <<pathVars, walkVars, callVars>>

InitColor == ColorInit /\ PathIdle /\ WalkIdle /\ CallIdle

SpecColor == InitColor /\ [][ColorNext]_vars

(***************************************************************************)
(* SpecViewBox: parse on the root element of the first file, without a     *)
(* viewBox attribute or with one that joins at most MaxBoxNums of BoxTexts *)
(* by spaces or by commas.                                                 *)
(***************************************************************************)
MaxBoxNums == 5

\* 0, 24, -1.5, a text that is no number, and the empty text
BoxTexts == {<<"0">>, <<"2", "4">>, <<"-", "1", ".", "5">>, <<"x">>, <<>>}

RECURSIVE Join(_, _)
Join(ts, sep) ==
    IF ts = <<>> THEN <<>>
    ELSE IF Len(ts) = 1 THEN ts[1]
    ELSE ts[1] \o <<sep>> \o Join(Tail(ts), sep)

\* the run at the first token of the first file
RootState == convert(WalkStart(1), TRUE)

ViewBoxInit ==
    /\ \/ arg = [fn |-> "parse", has |-> FALSE, tokens |-> <<>>, sep |-> " ",
                 tok |-> Elem("svg", <<Attr("width", Two)>>)]
       \/ \E k \in 0..MaxBoxNums : \E ts \in [1..k -> BoxTexts] : \E sep \in {" ", ","} :
             arg = [fn |-> "parse", has |-> TRUE, tokens |-> ts, sep |-> sep,
                    tok |-> Elem("svg", <<Attr("width", Two),
                                          Attr("viewBox", Join(ts, sep))>>)]
    /\ res = NotCalled

ParseRoot ==
    /\ arg.fn = "parse"
    /\ res = NotCalled
    /\ res' = Returned(parse(RootState, arg.tok))
    /\ UNCHANGED arg

ViewBoxNext == ParseRoot /\ UNCHANGED <<colorVars, pathVars, walkVars>>

InitViewBox == ViewBoxInit /\ ColorIdle /\ PathIdle /\ WalkIdle

SpecViewBox == InitViewBox /\ [][ViewBoxNext]_vars

(***************************************************************************)
(* SpecTransform: parseSVG on one <rect> with a fill and with a transform  *)
(* attribute: a function name, "(", at most MaxCoefs of CoefTexts joined   *)
(* by spaces or by commas, and ")" or nothing.                             *)
(***************************************************************************)
MaxCoefs == 7

CoefTexts == {<<"0">>, <<"1">>, <<"2">>}

FunctionNames ==
    {<<"m", "a", "t", "r", "i", "x">>, <<"t", "r", "a", "n", "s", "l", "a", "t", "e">>,
     <<"s", "c", "a", "l", "e">>, <<"r", "o", "t", "a", "t", "e">>,
     <<"s", "k", "e", "w", "X">>}

\* the run inside the root element of the first file
SvgState == parse(RootState, Elem("svg", <<>>))

TransformInit ==
    /\ \E name \in FunctionNames : \E k \in 0..MaxCoefs : \E ts \in [1..k -> CoefTexts] :
       \E sep \in {" ", ","} : \E close \in {<<")">>, <<>>} :
          arg = [fn |-> "transform", name |-> name, tokens |-> ts, close |-> close,
                 text |-> name \o <<"(">> \o Join(ts, sep) \o close]
    /\ res = NotCalled

\* <rect x="1" y="2" width="2" height="1" fill="#ff0000" transform=text/>
TransformToken(text) ==
    Elem("rect", Geometry \o <<Attr("fill", Red), Attr("transform", text)>>)

ParseTransformed ==
    /\ arg.fn = "transform"
    /\ res = NotCalled
    /\ res' = Returned(parseSVG(SvgState, TransformToken(arg.text)))
    /\ UNCHANGED arg

TransformNext == ParseTransformed /\ UNCHANGED <<colorVars, pathVars, walkVars>>

InitTransform == TransformInit /\ ColorIdle /\ PathIdle /\ WalkIdle

SpecTransform == InitTransform /\ [][TransformNext]_vars

(***************************************************************************)
(* SpecPoly: parseSVG on one filled <polygon> or <polyline> whose points   *)
(* attribute holds at most MaxPolyNums of PolyNums joined by spaces.       *)
(***************************************************************************)
MaxPolyNums == 6

PolyNums == {<<"0">>, <<"1">>, <<"2">>}

PolyInit ==
    /\ \E tag \in PolyTags : \E k \in 0..MaxPolyNums : \E ts \in [1..k -> PolyNums] :
          arg = [fn |-> "poly", tag |-> tag, tokens |-> ts, text |-> Join(ts, " ")]
    /\ res = NotCalled

\* <polygon fill="#ff0000" points=text/>
PolyToken(tag, text) == Elem(tag, <<Attr("fill", Red), Attr("points", text)>>)

ParsePoly ==
    /\ arg.fn = "poly"
    /\ res = NotCalled
    /\ res' = Returned(parseSVG(SvgState, PolyToken(arg.tag, arg.text)))
    /\ UNCHANGED arg

PolyNext == ParsePoly /\ UNCHANGED <<colorVars, pathVars, walkVars>>

InitPoly == PolyInit /\ ColorIdle /\ PathIdle /\ WalkIdle

SpecPoly == InitPoly /\ [][PolyNext]_vars

(***************************************************************************)
(* SpecPoints: one call of Points.UnmarshalText on at most MaxListNums of  *)
(* ListNums, with one of ListSeps between two numbers and with or without  *)
(* a space before the first and after the last.                            *)
(***************************************************************************)
MaxListNums == 3

\* 1, 24 and -1.5
ListNums == {<<"1">>, <<"2", "4">>, <<"-", "1", ".", "5">>}

\* a space, a comma, a comma and a space, two spaces
ListSeps == {<<" ">>, <<",">>, <<",", " ">>, <<" ", " ">>}

\* ts[1] seps[1] ts[2] ... seps[k-1] ts[k]
RECURSIVE Interleave(_, _)
Interleave(ts, seps) ==
    IF ts = <<>> THEN <<>>
    ELSE IF Len(ts) = 1 THEN ts[1]
    ELSE ts[1] \o seps[1] \o Interleave(Tail(ts), Tail(seps))

PointsInit ==
    /\ \E k \in 1..MaxListNums : \E ts \in [1..k -> ListNums] :
       \E seps \in [1..(k - 1) -> ListSeps] :
       \E lead \in {<<>>, <<" ">>} : \E trail \in {<<>>, <<" ">>} :
          arg = [fn |-> "points", tokens |-> ts,
                 text |-> lead \o Interleave(ts, seps) \o trail]
    /\ res = NotCalled

UnmarshalPoints ==
    /\ arg.fn = "points"
    /\ res = NotCalled
    /\ res' = Returned(PointsUnmarshalText(<<>>, arg.text))
    /\ UNCHANGED arg

PointsNext == UnmarshalPoints /\ UNCHANGED <<colorVars, pathVars, walkVars>>

InitPoints == PointsInit /\ ColorIdle /\ PathIdle /\ WalkIdle

SpecPoints == InitPoints /\ [][PointsNext]_vars

(***************************************************************************)
(* SpecFloat: one call of parseFloat on a text of at most MaxNumLen bytes  *)
(* of NumBytes whose fractions have at most FracDigits digits.             *)
(***************************************************************************)
MaxNumLen == 5

NumBytes == {"1", "5", ".", "-", "x"}

\* no '.' of s is followed by more than FracDigits digits
FractionFits(s) ==
    \A i \in 1..Len(s) :
        s[i] = "." =>
            \E j \in 1..(FracDigits + 1) :
                IF i + j > Len(s) THEN TRUE ELSE ~IsDigit(s[i + j])

FloatInit ==
    /\ \E s \in SeqsUpTo(NumBytes, MaxNumLen) :
          FractionFits(s) /\ arg = [fn |-> "parseFloat", s |-> s]
    /\ res = NotCalled

ScanFloat ==
    /\ arg.fn = "parseFloat"
    /\ res = NotCalled
    /\ res' = Returned(parseFloat(arg.s))
    /\ UNCHANGED arg

FloatNext == ScanFloat /\ UNCHANGED <<colorVars, pathVars, walkVars>>

InitFloat == FloatInit /\ ColorIdle /\ PathIdle /\ WalkIdle

SpecFloat == InitFloat /\ [][FloatNext]_vars

(***************************************************************************)
(* SpecScope: parseSVG on one <path> with or without a fill, a stroke and  *)
(* a transform, whose d attribute is one of Chunks or of PathExamples.     *)
(***************************************************************************)
ScopeAttrs ==
    {fill \o stroke \o trans :
        fill \in {<<>>, <<Attr("fill", Red)>>},
        stroke \in {<<>>, <<Attr("stroke", Blue)>>},
        trans \in {<<>>, <<Attr("transform", Matrix)>>}}

ScopeInit ==
    /\ \E attrs \in ScopeAttrs : \E d \in Chunks \cup PathExamples :
          arg = [fn |-> "scope", tok |-> Elem("path", attrs \o <<Attr("d", d)>>)]
    /\ res = NotCalled

ParseShape ==
    /\ arg.fn = "scope"
    /\ res = NotCalled
    /\ res' = Returned(parseSVG(SvgState, arg.tok))
    /\ UNCHANGED arg

ScopeNext == ParseShape /\ UNCHANGED <<colorVars, pathVars, walkVars>>

InitScope == ScopeInit /\ ColorIdle /\ PathIdle /\ WalkIdle

SpecScope == InitScope /\ [][ScopeNext]_vars

(***************************************************************************)
(* SpecEllipse: the path of one <ellipse> or <circle> whose attributes are *)
(* integers from -1 to MaxRadius: the line Ellipse.Path or Circle.Path     *)
(* writes, and the ops of the call to ellipse that the line makes.         *)
(***************************************************************************)
MaxRadius == 2

EllipseValues == {Num(k) : k \in (0 - 1)..MaxRadius}

EllipseElems ==
    {[ZeroElem("ellipse") EXCEPT !.N["cx"] = cx, !.N["cy"] = cy,
                                 !.N["rx"] = rx, !.N["ry"] = ry] :
        cx \in EllipseValues, cy \in EllipseValues,
        rx \in EllipseValues, ry \in EllipseValues}
    \cup {[ZeroElem("circle") EXCEPT !.N["cx"] = cx, !.N["cy"] = cy, !.N["r"] = r] :
            cx \in EllipseValues, cy \in EllipseValues, r \in EllipseValues}

EllipseInit ==
    /\ \E el \in EllipseElems : arg = [fn |-> "ellipse", el |-> el]
    /\ res = NotCalled

EllipsePath ==
    /\ arg.fn = "ellipse"
    /\ res = NotCalled
    /\ res' = Returned(EllipseCall(ElemPath(arg.el).out[1].args))
    /\ UNCHANGED arg

EllipseNext == EllipsePath /\ UNCHANGED <<colorVars, pathVars, walkVars>>

InitEllipse == EllipseInit /\ ColorIdle /\ PathIdle /\ WalkIdle

SpecEllipse == InitEllipse /\ [][EllipseNext]_vars

(***************************************************************************)
(* gogio: Semver.String and parseSemver.  A Semver is its four numbers.  A *)
(* number is kept as its sign and the decimal digits of its magnitude      *)
(* without leading zeros, so that the widths of int (64 bits, as on the    *)
(* 64-bit platforms) and of uint32 are those of the program.               *)
(***************************************************************************)
Big(neg, digits) == [neg |-> neg, digits |-> digits]

BigZero == Big(FALSE, <<"0">>)

SemverOf(major, minor, patch, code) ==
    [Major |-> major, Minor |-> minor, Patch |-> patch, VersionCode |-> code]

ZeroSemver == SemverOf(BigZero, BigZero, BigZero, BigZero)

\* 2^63 - 1, the greatest int
MaxInt64 ==
    <<"9", "2", "2", "3", "3", "7", "2", "0", "3", "6", "8", "5", "4", "7",
      "7", "5", "8", "0", "7">>

\* 2^63, the magnitude of the least int
MinInt64 ==
    <<"9", "2", "2", "3", "3", "7", "2", "0", "3", "6", "8", "5", "4", "7",
      "7", "5", "8", "0", "8">>

\* 2^32 - 1, the greatest uint32
MaxUint32 ==
    <<"4", "2", "9", "4", "9", "6", "7", "2", "9", "5">>

\* the verb %d of Sprintf
FormatInt(n) == IF n.neg THEN <<"-">> \o n.digits ELSE n.digits

\* Semver.String: Sprintf("%d.%d.%d.%d", ...)
String(sv) ==
    FormatInt(sv.Major) \o <<".">> \o FormatInt(sv.Minor) \o <<".">>
        \o FormatInt(sv.Patch) \o <<".">> \o FormatInt(sv.VersionCode)

\* fmt's SkipSpace under Sscanf: the index of the first rune of v at or after
\* i that is no space, or 0 for the error "unexpected newline"
RECURSIVE SkipSpace(_, _)
SkipSpace(v, i) ==
    IF i > Len(v) THEN i
    ELSE IF v[i] = "\n" THEN 0
    ELSE IF v[i] \in White THEN SkipSpace(v, i + 1)
    ELSE i

\* fmt's accept(sign)
AcceptSign(v, i) == IF i <= Len(v) /\ v[i] \in {"+", "-"} THEN i + 1 ELSE i

\* fmt's scanNumber for the verb %d accepts the bytes of "0123456789"
RECURSIVE AcceptDigits(_, _)
AcceptDigits(v, i) ==
    IF i <= Len(v) /\ IsDigit(v[i]) THEN AcceptDigits(v, i + 1) ELSE i

\* the magnitude of the decimal digits ds: the digits without leading zeros
RECURSIVE Magnitude(_)
Magnitude(ds) ==
    IF Len(ds) > 1 /\ ds[1] = "0" THEN Magnitude(Tail(ds)) ELSE ds

\* a <= b for two magnitudes
RECURSIVE DecLeq(_, _)
DecLeq(a, b) ==
    IF Len(a) /= Len(b) THEN Len(a) < Len(b)
    ELSE IF a = <<>> THEN TRUE
    ELSE IF a[1] /= b[1] THEN DigitOf[a[1]] < DigitOf[b[1]]
    ELSE DecLeq(Tail(a), Tail(b))

ScanFailed == [ok |-> FALSE]

\* strconv's range error, or fmt's overflow error, for a magnitude above max
ScanRanged(next, neg, mag, max) ==
    IF ~DecLeq(mag, max) THEN ScanFailed
    ELSE [ok |-> TRUE, next |-> next, val |-> Big(neg /\ mag /= <<"0">>, mag)]

\* scanNumber on v[a..b-1] and strconv's parse of the token in base 10: no
\* digit is "expected integer", a value whose magnitude is above max is out
\* of range
ScanToken(v, neg, a, b, max) ==
    IF a = b THEN ScanFailed
    ELSE ScanRanged(b, neg, Magnitude(SubSeq(v, a, b - 1)), max)

\* strconv.ParseInt(tok, 10, 64) on the token with its sign
ScanSigned(v, s, a) ==
    IF s < a /\ v[s] = "-" THEN ScanToken(v, TRUE, a, AcceptDigits(v, a), MinInt64)
    ELSE ScanToken(v, FALSE, a, AcceptDigits(v, a), MaxInt64)

\* scanInt for the verb %d and an int, from the space skipped to s
ScanIntAt(v, s) ==
    IF s > Len(v) THEN ScanFailed ELSE ScanSigned(v, s, AcceptSign(v, s))

\* scanUint for the verb %d and a uint32: no sign is accepted; a value above
\* 2^64 - 1 is strconv's range error and one above 2^32 - 1 fmt's overflow
\* error, and either fails the scan
ScanUintAt(v, s) ==
    IF s > Len(v) THEN ScanFailed
    ELSE ScanToken(v, FALSE, s, AcceptDigits(v, s), MaxUint32)

\* the verb %d for operand k, from the space skipped to s
ScanVerb(v, k, s) ==
    IF s = 0 THEN ScanFailed
    ELSE IF k = 4 THEN ScanUintAt(v, s)
    ELSE ScanIntAt(v, s)

ScanError == [err |-> TRUE, vals |-> <<>>]

\* doScanf on the format "%d.%d.%d.%d": verb k reads from v[i]; the first
\* three operands are int, the fourth is uint32; input left after the last
\* verb is no error
RECURSIVE Sscanf(_, _, _, _)
RECURSIVE Scanned4(_, _, _, _)
Sscanf(v, i, k, vals) == Scanned4(v, k, vals, ScanVerb(v, k, SkipSpace(v, i)))

Scanned4(v, k, vals, r) ==
    IF ~r.ok THEN ScanError
    ELSE IF k = 4 THEN [err |-> FALSE, vals |-> Append(vals, r.val)]
    ELSE IF r.next <= Len(v) /\ v[r.next] = "."
    THEN Sscanf(v, r.next + 1, k + 1, Append(vals, r.val))
    ELSE ScanError

SemverFailed == [err |-> TRUE, sv |-> ZeroSemver]

SemverFound(sv) == [err |-> FALSE, sv |-> sv]

\* A parseSemver that trusts the scan.
SemverUnchecked(v, r) ==
    IF r.err THEN SemverFailed
    ELSE SemverFound(SemverOf(r.vals[1], r.vals[2], r.vals[3], r.vals[4]))

SemverRendered(v, sv) == IF String(sv) /= v THEN SemverFailed ELSE SemverFound(sv)

SemverChecked(v, r) ==
    IF r.err THEN SemverFailed
    ELSE SemverRendered(v, SemverOf(r.vals[1], r.vals[2], r.vals[3], r.vals[4]))

parseSemver(v) == SemverChecked(v, Sscanf(v, 1, 1, <<>>))

(***************************************************************************)
(* SpecSemver: one call of parseSemver on a text of at most MaxParts       *)
(* parts joined by dots, or on four numbers at the ends of the ranges of   *)
(* int and uint32.                                                         *)
(***************************************************************************)
MaxParts == 5

\* the digits of d + 1, for digits d that do not end in 9
Successor(d) ==
    [i \in 1..Len(d) |-> IF i = Len(d) THEN Digits[DigitOf[d[i]] + 2] ELSE d[i]]

\* 0, 12, -1, and the spellings 01, -0, v1, 1 after a space and a tab, 1_0
\* and the empty text
PartTexts == {<<"0">>, <<"1", "2">>, <<"-", "1">>, <<"0", "1">>, <<"-", "0">>,
              <<"v", "1">>, <<" ", "\t", "1">>, <<"1", "_", "0">>, <<>>}

\* 0, the greatest and the least int and uint32, and their neighbours
\* outside the range
WideTexts ==
    {<<"0">>, MaxUint32, Successor(MaxUint32), MaxInt64, MinInt64,
     <<"-">> \o MinInt64, <<"-">> \o Successor(MinInt64)}

\* at most MaxParts of PartTexts, or four of WideTexts, joined by dots
SemverInit ==
    /\ \/ \E ts \in SeqsUpTo(PartTexts, MaxParts) :
             arg = [fn |-> "parseSemver", v |-> Join(ts, ".")]
       \/ \E ts \in [1..4 -> WideTexts] :
             arg = [fn |-> "parseSemver", v |-> Join(ts, ".")]
    /\ res = NotCalled

ParseVersion ==
    /\ arg.fn = "parseSemver"
    /\ res = NotCalled
    /\ res' = Returned(parseSemver(arg.v))
    /\ UNCHANGED arg

SemverNext == ParseVersion /\ UNCHANGED <<colorVars, pathVars, walkVars>>

InitSemver == SemverInit /\ ColorIdle /\ PathIdle /\ WalkIdle

SpecSemver == InitSemver /\ [][SemverNext]_vars

(***************************************************************************)
(* gogio: getAppID with an empty -appid flag.                              *)
(***************************************************************************)
\* strings.Split(s, sep) for a separator of one byte
RECURSIVE SplitFrom(_, _, _, _)
SplitFrom(s, sep, i, part) ==
    IF i > Len(s) THEN <<part>>
    ELSE IF s[i] = sep THEN <<part>> \o SplitFrom(s, sep, i + 1, <<>>)
    ELSE SplitFrom(s, sep, i + 1, Append(part, s[i]))

Split(s, sep) == SplitFrom(s, sep, 1, <<>>)

Localhost == <<"l", "o", "c", "a", "l", "h", "o", "s", "t">>

\* A loop that leaves the labels in the order of the path.
SwapNone(domain, i) == domain

\* lines 201-204: for i := range len(domain) / 2, with the 0-based i at
\* index i + 1
RECURSIVE SwapLoop(_, _)
SwapLoop(domain, i) ==
    IF i >= Len(domain) \div 2 THEN domain
    ELSE SwapLoop([domain EXCEPT ![i + 1] = domain[Len(domain) - i],
                                 ![Len(domain) - i] = domain[i + 1]], i + 1)

\* lines 213-218: one rune of the id
PackageRune(c) ==
    IF IsLower(c) \/ c \in UpperSet \/ c = "_" \/ c = "." THEN c ELSE "_"

PackageRunes(appid) == [i \in 1..Len(appid) |-> PackageRune(appid[i])]

\* lines 194-197
NameOf(elems) == IF Len(elems) > 1 THEN <<".">> \o elems[Len(elems)] ELSE <<>>

\* lines 198-205 and the join of line 207
AppDomain(elems, domain) ==
    IF Len(elems) < 2 /\ Len(domain) < 2
    THEN Localhost \o <<".">> \o domain[1]
    ELSE Join(SwapLoop(domain, 0), ".") \o NameOf(elems)

AppIDOf(elems) == PackageRunes(AppDomain(elems, Split(elems[1], ".")))

getAppID(PkgPath) == AppIDOf(Split(PkgPath, "/"))

(***************************************************************************)
(* SpecAppID: one call of getAppID on a package path of at most            *)
(* MaxPathLen bytes, or on the path example-com.net/dir/app.               *)
(***************************************************************************)
MaxPathLen == 6

PathBytes == {"a", "B", "1", ".", "/"}

ExamplePath == <<"e", "x", "a", "m", "p", "l", "e", "-", "c", "o", "m", ".",
                 "n", "e", "t", "/", "d", "i", "r", "/", "a", "p", "p">>

AppIDInit ==
    /\ \E p \in SeqsUpTo(PathBytes, MaxPathLen) \cup {ExamplePath} :
          arg = [fn |-> "getAppID", PkgPath |-> p]
    /\ res = NotCalled

GetAppID ==
    /\ arg.fn = "getAppID"
    /\ res = NotCalled
    /\ res' = Returned(getAppID(arg.PkgPath))
    /\ UNCHANGED arg

AppIDNext == GetAppID /\ UNCHANGED <<colorVars, pathVars, walkVars>>

InitAppID == AppIDInit /\ ColorIdle /\ PathIdle /\ WalkIdle

SpecAppID == InitAppID /\ [][AppIDNext]_vars

(***************************************************************************)
(* Properties of convertAll and the document walker (Spec).                *)
(***************************************************************************)
SupportedTags == {GroupTag, TitleTag} \cup ShapeTags

Count(w, name) == Cardinality({i \in 1..Len(w) : w[i].op = name})

\* The place of the last "Decl" of w[1..k], 0 if there is none: the start of
\* what the file being compiled wrote.
RECURSIVE LastDeclTo(_, _)
LastDeclTo(w, k) ==
    IF k = 0 THEN 0 ELSE IF w[k].op = "Decl" THEN k ELSE LastDeclTo(w, k - 1)

LastDecl(w) == LastDeclTo(w, Len(w))

FileOut(w) == IF LastDecl(w) = 0 THEN <<>> ELSE SubSeq(w, LastDecl(w), Len(w))

\* The places of doc that hold an element below the root.
Below(doc) ==
    {i \in 1..Len(doc) : doc[i].kind = "start" /\ \E j \in 1..(i - 1) : doc[j].kind = "start"}

LastToken(ws) == ws.doc[Len(ws.doc)]

Painted(el) == el.Fill.Set \/ el.Stroke.Set

\* C1: the output file is written only by a run in which every input file
\* compiled and no error was returned, and holds the whole buffer; a run that
\* failed (by an error value or by a panic) has stopped and keeps its error,
\* and unless the error is that of os.WriteFile itself nothing has reached
\* the output file, whatever earlier files put into the buffer; what is in
\* the output file is the start of the buffer of a run whose files all
\* compiled.
C1_AllOrNothing ==
    /\ walk.written =>
         /\ walk.result = "ok" /\ walk.err = NoErr
         /\ walk.compiled = walk.nfiles
         /\ walk.output = walk.w
    /\ walk.result \in {"error", "panic"} =>
         /\ walk.pc = "done" /\ walk.err /= NoErr
         /\ ~walk.written
         /\ walk.err.kind /= "write" => walk.output = <<>>
    /\ walk.output /= <<>> =>
         /\ walk.compiled = walk.nfiles
         /\ walk.output = SubSeq(walk.w, 1, Len(walk.output))
    /\ walk.result = "ok" => walk.written

\* the second file fails after the first put a painted shape into the buffer
C1_Witness ==
    /\ walk.result = "error"
    /\ walk.compiled >= 1
    /\ Count(walk.w, "Fill") >= 1
    /\ walk.fi = 2 /\ Len(walk.doc) >= 2
    /\ ~walk.written

\* C2 (as claimed): an unsupported tag anywhere in the tree below the root,
\* the children of title and of shape elements included, fails the compile
\* with the unsupported-tag error naming it.
C2_UnsupportedAnywhere ==
    \A i \in Below(walk.doc) :
        \A tag \in ({walk.doc[i].tag} \cup Range(walk.doc[i].inner)) \ SupportedTags :
            /\ walk.result = "error"
            /\ walk.err = Err("unsupported tag", <<tag>>)

\* C2 (amended): an unsupported element that is a child of the root or of a
\* group, at any depth, and that the walker reaches fails the compile: it is
\* the last token read, the error is the unsupported-tag error naming it, and
\* nothing is written, whatever shapes came before it.
C2_UnsupportedElement ==
    \A i \in Below(walk.doc) :
        walk.doc[i].tag \notin SupportedTags =>
            /\ i = Len(walk.doc)
            /\ walk.result = "error" /\ walk.pc = "done"
            /\ walk.err = Err("unsupported tag", <<walk.doc[i].tag>>)
            /\ ~walk.written /\ walk.output = <<>>

\* an unsupported element inside a group, after a painted shape
C2_Witness ==
    /\ walk.doc /= <<>>
    /\ LastToken(walk).kind = "start" /\ LastToken(walk).tag \notin SupportedTags
    /\ Len(walk.doc) \in Below(walk.doc)
    /\ walk.depth >= 1
    /\ Count(FileOut(walk.w), "Fill") >= 1
    /\ walk.result = "error"

NoPaintAttrs(tok) ==
    \A k \in 1..Len(tok.attrs) :
        tok.attrs[k].name \in {"fill", "stroke"} => tok.attrs[k].value = None

\* the ops of block are one block of a shape decoded as el
OneBlock(block, el) ==
    /\ Len(block) >= 4
    /\ block[1].op = "{" /\ block[Len(block)].op = "}"
    /\ Count(block, "{") = 1 /\ Count(block, "}") = 1
    /\ Count(block, "Begin") = 1 /\ Count(block, "End") = 1
    /\ Count(block, "Fill") = (IF el.Fill.Set THEN 1 ELSE 0)
    /\ Count(block, "Stroke") = (IF el.Stroke.Set THEN 1 ELSE 0)
    /\ Count(block, "Push") = Count(block, "Pop") /\ Count(block, "Pop") <= 1

\* C3: when the walker reads a shape element whose attributes decode, then
\* if neither fill nor stroke is set (none given, or "none") the buffer is
\* unchanged and the compile goes on without error, and if one is set and
\* the compile goes on, exactly one block was appended to the buffer.
C3_EmittedIffPainted ==
    [][ LET tok == LastToken(walk')
            el == DecodeElement(tok)
            n == Len(walk.w)
        IN  ( /\ walk.pc = "svg"
              /\ Len(walk'.doc) = Len(walk.doc) + 1
              /\ tok.kind = "start"
              /\ tok.tag \in ShapeTags
              /\ el.err = NoErr )
            => /\ NoPaintAttrs(tok) => ~Painted(el)
               /\ ~Painted(el) =>
                    /\ walk'.w = walk.w
                    /\ walk'.result = "run" /\ walk'.pc = "svg" /\ walk'.err = NoErr
               /\ (Painted(el) /\ walk'.result = "run") =>
                    /\ Len(walk'.w) > n
                    /\ SubSeq(walk'.w, 1, n) = walk.w
                    /\ OneBlock(SubSeq(walk'.w, n + 1, Len(walk'.w)), el)
               /\ (Painted(el) /\ walk'.result /= "run") =>
                    ElemPath(el).status /= "done"
      ]_vars

\* a shape with fill="none" stroke="none" and a painted shape were read, and
\* the file has one block
C3_Witness ==
    /\ walk.result = "run"
    /\ \E i, j \in Below(walk.doc) :
          /\ walk.doc[i].tag \in ShapeTags /\ walk.doc[j].tag \in ShapeTags
          /\ walk.doc[i].attrs /= <<>> /\ NoPaintAttrs(walk.doc[i])
          /\ DecodeElement(walk.doc[i]).err = NoErr
          /\ Painted(DecodeElement(walk.doc[j]))
    /\ Count(FileOut(walk.w), "{") = 1
    /\ Count(FileOut(walk.w), "}") = 1

\* doc without its group start tags and their end tags
RECURSIVE Unwrap(_, _)
Unwrap(doc, depth) ==
    IF doc = <<>> THEN <<>>
    ELSE IF Head(doc).kind = "start" /\ Head(doc).tag = GroupTag
    THEN Unwrap(Tail(doc), depth + 1)
    ELSE IF Head(doc).kind = "end" /\ depth > 0
    THEN Unwrap(Tail(doc), depth - 1)
    ELSE <<Head(doc)>> \o Unwrap(Tail(doc), depth)

\* C4: the run on the files with their groups unwrapped (every <g> start
\* tag, whatever its attributes, and its end tag removed) stands, after
\* every token, where the run on the files as they are stands: the same
\* instruction sequence, the same result and error, the same output.
C4_GroupsFlattened ==
    /\ flat.doc = Unwrap(walk.doc, 0)
    /\ flat.w = walk.w
    /\ flat.result = walk.result /\ flat.err = walk.err
    /\ flat.written = walk.written /\ flat.output = walk.output

\* a written file with a painted shape inside two groups, the outer one
\* carrying transform and fill attributes
C4_Witness ==
    /\ walk.written
    /\ Count(FileOut(walk.w), "Fill") >= 1
    /\ \E i, j, k \in Below(walk.doc) :
          /\ i < j /\ j < k
          /\ walk.doc[i].tag = GroupTag /\ walk.doc[i].attrs /= <<>>
          /\ walk.doc[j].tag = GroupTag
          /\ walk.doc[k].tag \in ShapeTags
          /\ walk.doc[k + 1].kind = "end" /\ walk.doc[k + 2].kind = "end"

(***************************************************************************)
(* Properties of the path compiler (SpecPath).                             *)
(***************************************************************************)
\* The pairs the command read by the next iteration scans, offset as the code does.
CommandPoints(st) ==
    PairPoints(st, NextOp(st), ScanCoords(Tail(TrimLeft(st.cmds, Seps)), <<>>).coords)

ClosedOut ==
    <<MoveTo(Pt(0, 0)), LineTo(Pt(Num(10), 0)), LineTo(Pt(Num(10), Num(10))),
      LineTo(Pt(0, 0))>>

\* C5: a Z or z command emits exactly one LineTo(subpathStart) when the pen
\* differs from subpathStart and nothing when they are equal, never a Close op,
\* and leaves pen = lastControl = subpathStart; M0,0 L10,0 L10,10 Z yields
\* [MoveTo(0,0), LineTo(10,0), LineTo(10,10), LineTo(0,0)], and a second
\* consecutive Z changes neither the output nor the state.
C5_CloseCommand ==
    /\ [][(pst.status = "run" /\ NextOp(pst) \in {"Z", "z"}) =>
            /\ pst'.out = IF pst.pen = pst.initPoint THEN pst.out
                          ELSE Append(pst.out, LineTo(pst.initPoint))
            /\ pst'.pen = pst.initPoint
            /\ pst'.ctrl2 = pst.initPoint
            /\ pst'.initPoint = pst.initPoint
            /\ pst'.status = "run"]_vars
    /\ [](\A i \in 1..Len(pst.out) : pst.out[i].op \in {"MoveTo", "LineTo", "CubeTo"})
    /\ []((pst.status = "done" /\ pd = ExClose) => pst.out = ClosedOut)
    /\ []((pst.status = "done" /\ pd \in {ExClose \o <<" ", "Z">>, ExClose \o <<"z">>}) =>
            /\ pst.out = ClosedOut
            /\ pst.pen = Pt(0, 0) /\ pst.ctrl2 = Pt(0, 0) /\ pst.initPoint = Pt(0, 0))

C5_Witness ==
    /\ pd = ExClose \o <<" ", "Z">>
    /\ pst.status = "done"
    /\ phist[4] = [op |-> "Z", n |-> 1]
    /\ phist[5] = [op |-> "Z", n |-> 0]
    /\ pst.out = ClosedOut

SmoothOut ==
    <<MoveTo(Pt(0, 0)),
      CubeTo(Pt(Num(1), Num(1)), Pt(Num(2), Num(1)), Pt(Num(3), 0)),
      CubeTo(Pt(Num(4), Num(0 - 1)), Pt(Num(4), Num(1)), Pt(Num(5), 0))>>

\* C6: a C/c command emits one CubeTo(ctrl1, ctrl2, end) per group of three
\* pairs and leaves pen = end and lastControl = ctrl2 of its final group; an S/s
\* command that immediately follows it emits its first segment with
\* ctrl1 = 2*pen - lastControl of those values; in M0,0 C1,1 2,1 3,0 S4,1 5,0
\* the S segment has ctrl1 = (4,-1).
C6_CubicThenSmooth ==
    /\ [][(pst.status = "run" /\ NextOp(pst) \in {"C", "c"} /\ pst'.status = "run") =>
            LET pts == CommandPoints(pst)
                g == Len(pts) \div 3
            IN  /\ Len(pts) = 3 * g
                /\ Len(pst'.out) = Len(pst.out) + g
                /\ SubSeq(pst'.out, 1, Len(pst.out)) = pst.out
                /\ \A k \in 1..g :
                     pst'.out[Len(pst.out) + k]
                         = CubeTo(pts[3 * k - 2], pts[3 * k - 1], pts[3 * k])
                /\ g >= 1 => pst'.pen = pts[3 * g] /\ pst'.ctrl2 = pts[3 * g - 1]]_vars
    /\ [][(/\ pst.status = "run" /\ NextOp(pst) \in {"S", "s"}
           /\ phist /= <<>> /\ Last(phist, 0).op \in {"C", "c"} /\ Last(phist, 0).n >= 1
           /\ Len(pst'.out) > Len(pst.out)) =>
            LET prev == pst.out[Len(pst.out)].args
                c2 == Pt(prev[3], prev[4])
                end == Pt(prev[5], prev[6])
                pts == CommandPoints(pst)
            IN  pst'.out[Len(pst.out) + 1]
                    = CubeTo(Sub(Mul(end, 2), c2), pts[1], pts[2])]_vars
    /\ []((pst.status = "done" /\ pd = ExSmooth) => pst.out = SmoothOut)

C6_Witness ==
    /\ pd = ExSmooth
    /\ pst.status = "done"
    /\ phist = <<[op |-> "M", n |-> 1], [op |-> "C", n |-> 1], [op |-> "S", n |-> 1]>>
    /\ pst.out[3].args = <<Num(4), Num(0 - 1), Num(4), Num(1), Num(5), 0>>

(***************************************************************************)
(* Properties of colour parsing (SpecColor).                               *)
(***************************************************************************)
HexChars ==
    DigitSet \cup {"a", "b", "c", "d", "e", "f"} \cup {"A", "B", "C", "D", "E", "F"}

\* t is "#" followed by exactly n hexadecimal digits
IsHexText(t, n) ==
    /\ Len(t) = n + 1
    /\ t[1] = "#"
    /\ \A i \in 2..(n + 1) : t[i] \in HexChars

\* the byte written by the two hexadecimal digits at t[i], t[i+1]
HexByte(t, i) == DigitValue(t[i]) * 16 + DigitValue(t[i + 1])

\* C7: "none" parses to the unset colour, and "#" followed by six hexadecimal
\* digits RRGGBB parses to a set colour of value 0xFF000000 | 0xRRGGBB;
\* "#ff0000" gives 0xffff0000.
C7_ImpliedAlpha ==
    cres /= Pending =>
        /\ ctext = None => cres.err = "nil" /\ ~cres.c.Set
        /\ IsHexText(ctext, 6) =>
             /\ cres.err = "nil"
             /\ cres.c.Set
             /\ cres.c.Value = Int32(FALSE, 255 * 256 + HexByte(ctext, 2),
                                     HexByte(ctext, 4) * 256 + HexByte(ctext, 6))

C7_Witness ==
    /\ ctext = <<"#", "f", "f", "0", "0", "0", "0">>
    /\ cres = [c |-> Color(TRUE, Int32(FALSE, 255 * 256 + 255, 0)), err |-> "nil"]

\* C8 (as claimed): every "#" followed by eight hexadecimal digits RRGGBBAA
\* parses, and the packed value has AA in its alpha byte (bits 24-31) and
\* RR, GG, BB in its red, green and blue bytes.
C8_ExplicitAlphaClaim ==
    (cres /= Pending /\ IsHexText(ctext, 8)) =>
        /\ cres.err = "nil"
        /\ cres.c.Set
        /\ cres.c.Value = Int32(FALSE, HexByte(ctext, 8) * 256 + HexByte(ctext, 2),
                                HexByte(ctext, 4) * 256 + HexByte(ctext, 6))

\* C9 (as claimed): parsing fails for every text that is not "none", not "#"
\* with exactly six and not "#" with exactly eight hexadecimal digits, and a
\* successfully parsed colour is unset or a value in 0..2^32-1.
C9_InvalidColorClaim ==
    cres /= Pending =>
        /\ (ctext /= None /\ ~IsHexText(ctext, 6) /\ ~IsHexText(ctext, 8)) =>
             cres.err /= "nil"
        /\ cres.err = "nil" => (~cres.c.Set \/ ~cres.c.Value.neg)

PathSyntaxErrors == {"unknown <path> command", "odd number of coordinates in <path> data"}

\* C10 (as claimed): a path element whose d the path compiler rejects makes
\* the compile fail with a path-syntax error, with or without fill and
\* stroke, wherever it stands.
C10_PathErrorsAlwaysFatal ==
    \A i \in Below(walk.doc) :
        ( /\ walk.doc[i].tag = "path"
          /\ DecodeElement(walk.doc[i]).err = NoErr
          /\ printPathCommands(DecodeElement(walk.doc[i]).D).status /= "done" )
        => /\ walk.result = "error"
           /\ walk.err.kind \in PathSyntaxErrors

\* C10 (amended): a path element with fill or stroke set whose d holds an
\* unknown command letter or an odd number of coordinates is the last token
\* read: the compile fails with that path-syntax error and nothing is
\* written, wherever the element stands; a d that leaves a C or S group
\* incomplete stops the run by an index-out-of-range panic, not an error
\* value; a path element with neither fill nor stroke is dropped before its
\* d is read and fails nothing.
C10_PaintedPathErrorsFatal ==
    \A i \in Below(walk.doc) :
        LET el == DecodeElement(walk.doc[i])
            r == printPathCommands(el.D)
        IN  (walk.doc[i].tag = "path" /\ el.err = NoErr) =>
                /\ (Painted(el) /\ r.status = "error") =>
                     /\ i = Len(walk.doc)
                     /\ r.err.kind \in PathSyntaxErrors
                     /\ walk.result = "error" /\ walk.err = r.err
                     /\ ~walk.written /\ walk.output = <<>>
                /\ (Painted(el) /\ r.status = "panic") =>
                     /\ i = Len(walk.doc)
                     /\ walk.result = "panic"
                     /\ ~walk.written /\ walk.output = <<>>
                /\ (~Painted(el) /\ i = Len(walk.doc)) =>
                     walk.result = "run" /\ walk.err = NoErr

\* a painted path with an unknown command, read after a painted shape
C10_Witness ==
    /\ walk.result = "error"
    /\ walk.err.kind = "unknown <path> command"
    /\ LastToken(walk).tag = "path"
    /\ Count(FileOut(walk.w), "Fill") >= 1

(***************************************************************************)
(* Properties of the ellipse converter (SpecEllipse).                      *)
(***************************************************************************)
\* the radii of the element: (rx, ry), or (r, r) for a circle
RadiusOf(el) ==
    IF el.tag = "circle" THEN Pt(el.N["r"], el.N["r"]) ELSE Pt(el.N["rx"], el.N["ry"])

\* x + k * q
WithKappa(x, k) == Fin(x, k, 1)

\* the ops of the claim for the center (cx, cy) and the radii (rx, ry)
ClaimedEllipse(cx, cy, rx, ry) ==
    <<MoveTo(Pt(Float(cx), Float(cy - ry))),
      CubeTo(Pt(WithKappa(cx, rx), Float(cy - ry)), Pt(Float(cx + rx), WithKappa(cy, 0 - ry)),
             Pt(Float(cx + rx), Float(cy))),
      CubeTo(Pt(Float(cx + rx), WithKappa(cy, ry)), Pt(WithKappa(cx, rx), Float(cy + ry)),
             Pt(Float(cx), Float(cy + ry))),
      CubeTo(Pt(WithKappa(cx, 0 - rx), Float(cy + ry)), Pt(Float(cx - rx), WithKappa(cy, ry)),
             Pt(Float(cx - rx), Float(cy))),
      CubeTo(Pt(Float(cx - rx), WithKappa(cy, 0 - ry)), Pt(WithKappa(cx, 0 - rx), Float(cy - ry)),
             Pt(Float(cx), Float(cy - ry)))>>

\* C11: the ellipse converter, for <ellipse> with radii (rx, ry) and for
\* <circle> with rx = ry = r, emits MoveTo(cx, cy - ry) and exactly four CubeTo
\* that end at the right, bottom and left extreme points and at the start point
\* again, with control offsets q*rx in x and q*ry in y.
C11_EllipseClaim ==
    (arg.fn = "ellipse" /\ res.done) =>
        /\ res.val = ClaimedEllipse(arg.el.N["cx"], arg.el.N["cy"],
                                    RadiusOf(arg.el)[1], RadiusOf(arg.el)[2])
        /\ Len(res.val) = 5
        /\ res.val[5].args[5] = res.val[1].args[1]
        /\ res.val[5].args[6] = res.val[1].args[2]

(***************************************************************************)
(* Properties of the viewBox attribute (SpecViewBox).                      *)
(***************************************************************************)
\* the value of one of BoxTexts that is a number
BoxValue(t) ==
    IF t = <<"0">> THEN 0
    ELSE IF t = <<"2", "4">> THEN Num(24)
    ELSE 0 - (Num(1) + Unit \div 2)

BoxNumbers == {<<"0">>, <<"2", "4">>, <<"-", "1", ".", "5">>}

\* the tokens of the attribute: what the separators delimit, a separator at
\* the end of the text delimiting nothing after it
BoxTokens(ts) ==
    IF ts /= <<>> /\ ts[Len(ts)] = <<>> THEN SubSeq(ts, 1, Len(ts) - 1) ELSE ts

IsViewBox(ts) == Len(ts) = 4 /\ \A i \in 1..4 : ts[i] \in BoxNumbers

ViewBoxOps(w) == {i \in 1..Len(w) : w[i].op \in {"ViewBox.Min", "ViewBox.Max"}}

\* C12: a viewBox attribute on the root element is accepted only if it parses
\* to exactly four numbers n0..n3, and then the document reports
\* ViewBox.Min = (n0, n1) and ViewBox.Max = (n2, n3); with any other count, or
\* with a token that is not a number, the compile fails with an invalid-viewBox
\* error; a root without viewBox compiles and reports no view box.
C12_ViewBox ==
    (arg.fn = "parse" /\ res.done) =>
        LET ts == BoxTokens(arg.tokens)
            ws == res.val
        IN  IF ~arg.has
            THEN ws.pc = "svg" /\ ws.result = "run" /\ ViewBoxOps(ws.w) = {}
            ELSE IF IsViewBox(ts)
            THEN /\ ws.pc = "svg" /\ ws.result = "run"
                 /\ Cardinality(ViewBoxOps(ws.w)) = 2
                 /\ ws.w[Len(ws.w) - 1]
                        = Ins("ViewBox.Min", <<BoxValue(ts[1]), BoxValue(ts[2])>>)
                 /\ ws.w[Len(ws.w)]
                        = Ins("ViewBox.Max", <<BoxValue(ts[3]), BoxValue(ts[4])>>)
            ELSE /\ ws.pc = "done" /\ ws.result = "error"
                 /\ ws.err = Err("invalid viewBox attribute", Join(arg.tokens, arg.sep))
                 /\ ViewBoxOps(ws.w) = {}

\* viewBox="0,0,24,-1.5" is accepted and reported
C12_Witness ==
    /\ arg.fn = "parse" /\ res.done
    /\ arg.tokens = <<<<"0">>, <<"0">>, <<"2", "4">>, <<"-", "1", ".", "5">>>>
    /\ arg.sep = ","
    /\ res.val.pc = "svg"
    /\ res.val.w[Len(res.val.w)]
           = Ins("ViewBox.Max", <<Num(24), 0 - (Num(1) + Unit \div 2)>>)

(***************************************************************************)
(* Properties of the transform attribute (SpecTransform).                  *)
(***************************************************************************)
\* the number one of CoefTexts spells
CoefValue(t) == IF t = <<"0">> THEN 0 ELSE IF t = <<"1">> THEN Num(1) ELSE Num(2)

\* f32.Affine2D.Transform: the image of the point (x, y) under the transform
\* that NewAffine2D makes of the arguments e = (sx, hx, ox, hy, sy, oy)
AffineImage(e, x, y) == <<x * e[1] + y * e[2] + e[3], x * e[4] + y * e[5] + e[6]>>

\* the image of (x, y) under matrix(a,b,c,d,e,f), m the six numbers
MatrixImage(m, x, y) == <<m[1] * x + m[3] * y + m[5], m[2] * x + m[4] * y + m[6]>>

UnitPoints == {<<0, 0>>, <<1, 0>>, <<0, 1>>, <<1, 1>>}

Pushes(w) == {i \in 1..Len(w) : w[i].op = "Push"}

\* C13: a shape's transform attribute is accepted only in the form
\* matrix(a,b,c,d,e,f) with exactly six numbers, and the transform emitted for
\* the shape maps (x,y) to (a*x+c*y+e, b*x+d*y+f); any other function name fails
\* with an unsupported-transform error naming the text, and a matrix with a
\* number count other than six fails.
C13_MatrixTransform ==
    (arg.fn = "transform" /\ res.done) =>
        LET ws == res.val
            m == [i \in 1..Len(arg.tokens) |-> CoefValue(arg.tokens[i])]
            matrix == arg.name = <<"m", "a", "t", "r", "i", "x">>
        IN  /\ ws.result = "run" <=> (matrix /\ arg.close = <<")">> /\ Len(m) = 6)
            /\ ~matrix => /\ ws.result = "error"
                          /\ ws.err = Err("unsupported transform", arg.text)
            /\ (matrix /\ Len(m) /= 6) => ws.result = "error"
            /\ ws.result = "error" => ws.w = SvgState.w \o Deferred(SvgState)
            /\ ws.result = "run" =>
                 IF \A p \in UnitPoints : MatrixImage(m, p[1], p[2]) = <<Num(p[1]), Num(p[2])>>
                 THEN Pushes(ws.w) = {}
                 ELSE /\ Cardinality(Pushes(ws.w)) = 1
                      /\ \A i \in Pushes(ws.w) : \A p \in UnitPoints :
                            AffineImage(ws.w[i].args, p[1], p[2])
                                = MatrixImage(m, p[1], p[2])

\* transform="matrix(1,2,0,1,2,0)": x is sent to x + 2 and y to 2x + y
C13_Witness ==
    /\ arg.fn = "transform" /\ res.done
    /\ arg.text = <<"m", "a", "t", "r", "i", "x", "(", "1", ",", "2", ",", "0", ",",
                    "1", ",", "2", ",", "0", ")">>
    /\ res.val.result = "run"
    /\ \E i \in Pushes(res.val.w) :
          AffineImage(res.val.w[i].args, 1, 1) = <<Num(3), Num(3)>>

(***************************************************************************)
(* The order of the output (Spec).                                         *)
(***************************************************************************)
Opt(cond, op) == IF cond THEN <<op>> ELSE <<>>

\* the block of the claim for a painted shape decoded as el
ClaimedBlock(el) ==
    <<Ins("{", <<>>)>>
        \o Opt(el.Transform /= Identity, Ins("Push", el.Transform))
        \o <<Ins("Begin", <<>>)>> \o ElemPath(el).out \o <<Ins("End", <<>>)>>
        \o Opt(el.Fill.Set, Ins("Fill", ColorArgs(el.Fill)))
        \o Opt(el.Stroke.Set, Ins("Stroke", ColorArgs(el.Stroke) \o <<el.StrokeWidth>>))
        \o Opt(el.Transform /= Identity, Ins("Pop", <<>>))
        \o <<Ins("}", <<>>)>>

ClaimedBlockOf(el) == IF Painted(el) THEN ClaimedBlock(el) ELSE <<>>

\* the blocks of the shape elements among doc[i..], in the order of doc
RECURSIVE ClaimedBlocks(_, _)
ClaimedBlocks(doc, i) ==
    IF i > Len(doc) THEN <<>>
    ELSE IF i \in Below(doc) /\ doc[i].tag \in ShapeTags
    THEN ClaimedBlockOf(DecodeElement(doc[i])) \o ClaimedBlocks(doc, i + 1)
    ELSE ClaimedBlocks(doc, i + 1)

\* the file whose tokens are in walk.doc has compiled
FileCompiled ==
    /\ walk.result = "run"
    /\ walk.pc \in {"convert", "format"}
    /\ walk.doc /= <<>>
    /\ LastToken(walk).kind = "end"

\* the number of view-box ops that follow the record start of out
ViewBoxLen(out) == Cardinality(ViewBoxOps(out))

\* C14: the output of a compiled document holds one block per painted shape,
\* in document order with groups flattened; in a block the order is transform
\* push (if not the identity), begin path, the path ops, end path, fill paint
\* (if set), stroke paint with its width (if set), transform pop (if pushed);
\* blocks do not nest or interleave and lie between the file's record start
\* and its record stop.
C14_BlockOrder ==
    [](FileCompiled =>
        LET out == FileOut(walk.w)
            n == Len(out)
            vb == ViewBoxLen(out)
        IN  /\ n >= 4 + vb
            /\ out[1].op = "Decl" /\ out[2].op = "Record"
            /\ \A i \in 3..(2 + vb) : out[i].op \in {"ViewBox.Min", "ViewBox.Max"}
            /\ SubSeq(out, 3 + vb, n - 2) = ClaimedBlocks(walk.doc, 1)
            /\ out[n - 1].op = "Stop" /\ out[n].op = "EndInit")

\* a compiled file of two painted shapes: the first with fill, stroke and a
\* transform, the second inside a group
C14_Witness ==
    /\ FileCompiled
    /\ Count(FileOut(walk.w), "{") = 2
    /\ \E i, j, k \in Below(walk.doc) :
          /\ i < j /\ j < k
          /\ walk.doc[i].tag = "rect"
          /\ Count(ClaimedBlocks(walk.doc, i), "Stroke") = 1
          /\ Count(ClaimedBlocks(walk.doc, i), "Push") = 1
          /\ Count(ClaimedBlocks(walk.doc, i), "Fill") = 2
          /\ walk.doc[j].tag = GroupTag
          /\ walk.doc[k].tag \in ShapeTags

(***************************************************************************)
(* Versions (SpecSemver).                                                  *)
(***************************************************************************)
\* the parts of v between its dots
RECURSIVE DotParts(_, _, _)
DotParts(v, i, part) ==
    IF i > Len(v) THEN <<part>>
    ELSE IF v[i] = "." THEN <<part>> \o DotParts(v, i + 1, <<>>)
    ELSE DotParts(v, i + 1, Append(part, v[i]))

\* the decimal spelling of a natural number: 0, or digits not led by 0
IsNatural(t) ==
    /\ t /= <<>>
    /\ \A k \in 1..Len(t) : IsDigit(t[k])
    /\ (Len(t) > 1 => t[1] /= "0")

\* the decimal spelling of an integer: a natural, or minus a natural but 0
IsInteger(t) ==
    \/ IsNatural(t)
    \/ t /= <<>> /\ t[1] = "-" /\ IsNatural(Tail(t)) /\ Tail(t) /= <<"0">>

FourIntegers(ps) == Len(ps) = 4 /\ \A k \in 1..4 : IsInteger(ps[k])

\* the natural spelled t is greater than the one spelled lim
Exceeds(t, lim) ==
    \/ Len(t) > Len(lim)
    \/ /\ Len(t) = Len(lim)
       /\ \E k \in 1..Len(t) :
             /\ DigitOf[t[k]] > DigitOf[lim[k]]
             /\ \A j \in 1..(k - 1) : t[j] = lim[j]

\* the decimal spelling of an integer of -2^63 .. 2^63 - 1
IsInt(t) ==
    /\ IsInteger(t)
    /\ IF t[1] = "-" THEN ~Exceeds(Tail(t), MinInt64) ELSE ~Exceeds(t, MaxInt64)

\* the decimal spelling of a natural number of 0 .. 2^32 - 1
IsUint32(t) == IsNatural(t) /\ ~Exceeds(t, MaxUint32)

IntegersAndCode(ps) ==
    Len(ps) = 4 /\ (\A k \in 1..3 : IsInt(ps[k])) /\ IsUint32(ps[4])

SemverCalled == arg.fn = "parseSemver" /\ res.done

\* a rejection is an error with the zero Semver; what is accepted renders
\* back to the text
RoundTrip ==
    IF res.val.err THEN res.val.sv = ZeroSemver ELSE String(res.val.sv) = arg.v

\* C15 as stated: parseSemver accepts v if and only if v is the canonical
\* rendering of four decimal integers, what it accepts renders back to v,
\* and every other text is rejected with an error and the zero Semver.
C15_FourIntegers ==
    SemverCalled =>
        /\ ~res.val.err <=> FourIntegers(DotParts(arg.v, 1, <<>>))
        /\ RoundTrip

\* C15: parseSemver accepts v if and only if v is the canonical rendering of
\* three decimal integers in the range of int, -2^63 .. 2^63 - 1, and a
\* version code in the range of uint32, 0 .. 2^32 - 1; what it accepts
\* renders back to v, and every other text is rejected with an error and
\* the zero Semver.
C15_CanonicalSemver ==
    SemverCalled =>
        /\ ~res.val.err <=> IntegersAndCode(DotParts(arg.v, 1, <<>>))
        /\ RoundTrip

\* the version -1.0.12.0 is accepted
C15_Witness ==
    /\ SemverCalled
    /\ arg.v = <<"-", "1", ".", "0", ".", "1", "2", ".", "0">>
    /\ res.val = SemverFound(SemverOf(Big(TRUE, <<"1">>), BigZero,
                                      Big(FALSE, <<"1", "2">>), BigZero))

(***************************************************************************)
(* Application ids (SpecAppID).                                            *)
(***************************************************************************)
Slashes(p) == {k \in 1..Len(p) : p[k] = "/"}

Least(S) == CHOOSE k \in S : \A j \in S : k <= j

Greatest(S) == CHOOSE k \in S : \A j \in S : j <= k

\* the first and the last element of a path
FirstElement(p) ==
    IF Slashes(p) = {} THEN p ELSE SubSeq(p, 1, Least(Slashes(p)) - 1)

LastElement(p) == SubSeq(p, Greatest(Slashes(p)) + 1, Len(p))

Reversed(s) == [i \in 1..Len(s) |-> s[Len(s) + 1 - i]]

AsciiLetters == LowerSet \cup UpperSet

Replaced(t) ==
    [i \in 1..Len(t) |-> IF t[i] \in AsciiLetters \cup {"_", "."} THEN t[i] ELSE "_"]

\* the id of the claim before the replacement, from the labels of the first
\* element
ClaimedDomain(p, labels) ==
    IF Slashes(p) = {} /\ Len(labels) = 1 THEN Localhost \o <<".">> \o p
    ELSE IF Slashes(p) = {} THEN Join(Reversed(labels), ".")
    ELSE Join(Reversed(labels), ".") \o <<".">> \o LastElement(p)

ClaimedAppID(p) == Replaced(ClaimedDomain(p, DotParts(FirstElement(p), 1, <<>>)))

\* C16: with an empty -appid flag the id is the labels of the first path
\* element in reversed order, then "." and the last element when the path
\* has more than one element; a single element of a single label P gives
\* localhost.P; every character other than an ASCII letter, '_' or '.' is
\* replaced by '_', so that the id holds only those characters.
C16_AppID ==
    arg.fn = "getAppID" /\ res.done =>
        /\ res.val = ClaimedAppID(arg.PkgPath)
        /\ \A i \in 1..Len(res.val) : res.val[i] \in AsciiLetters \cup {"_", "."}

\* example-com.net/dir/app gives net.example_com.app
C16_Witness ==
    /\ arg.fn = "getAppID" /\ res.done
    /\ arg.PkgPath = ExamplePath
    /\ res.val = <<"n", "e", "t", ".", "e", "x", "a", "m", "p", "l", "e", "_",
                   "c", "o", "m", ".", "a", "p", "p">>

(***************************************************************************)
(* lastControl, move-to, relative commands and smooth curves (SpecPath).   *)
(***************************************************************************)
NonCurveLetters == {"M", "m", "L", "l", "H", "h", "V", "v", "Z", "z"}

\* the ops the step from pst to pst' has written
Emitted == SubSeq(pst'.out, Len(pst.out) + 1, Len(pst'.out))

\* the command read by the step is op and the step has not failed
Runs(ops) == pst.status = "run" /\ NextOp(pst) \in ops /\ pst'.status = "run"

\* C17: lastControl is reset to pen by every command that is not a cubic
\* curve: after each M, m, L, l, H, h, V, v, Z or z command lastControl = pen,
\* and an S/s command immediately following such a command emits its first
\* segment with ctrl1 = pen.
C17_ControlReset ==
    /\ [][Runs(NonCurveLetters) => pst'.ctrl2 = pst'.pen]_vars
    /\ [][(/\ Runs({"S", "s"})
           /\ phist /= <<>> /\ Last(phist, 0).op \in NonCurveLetters
           /\ Emitted /= <<>>) =>
            SubSeq(Emitted[1].args, 1, 2) = pst.pen]_vars

\* MoveTo for the first pair and LineTo for each pair after it
MoveThenLines(pts) ==
    [k \in 1..Len(pts) |-> IF k = 1 THEN MoveTo(pts[1]) ELSE LineTo(pts[k])]

\* C18: an M/m command with k >= 2 pairs emits MoveTo for the first pair and
\* an implicit LineTo for each of the k-1 pairs after it, and subpathStart is
\* the first pair only, so that a following Z returns to the first pair:
\* M1,1 2,2 3,3 Z ends with LineTo(1,1).
C18_ImplicitLineTo ==
    /\ [][(Runs({"M", "m"}) /\ Len(CommandPoints(pst)) >= 2) =>
            /\ Emitted = MoveThenLines(CommandPoints(pst))
            /\ pst'.initPoint = CommandPoints(pst)[1]]_vars
    /\ []((pst.status = "done" /\ pd = ExMove) =>
            Last(pst.out, MoveTo(Pt(0, 0))) = LineTo(Pt(Num(1), Num(1))))

\* the numbers the command read by the step scans
CommandNumbers(st) == ScanCoords(Tail(TrimLeft(st.cmds, Seps)), <<>>).coords

\* the numbers of the ops written by a command: both of a MoveTo or LineTo,
\* all six of a CubeTo of c, the last four of a CubeTo of s
Written(op, ins) ==
    IF op = "s" THEN SubSeq(ins.args, 3, 6) ELSE ins.args

\* the numbers an op of a relative command has by the claim: the numbers
\* cs of its group, each added to the matching axis of the pen before
OffsetBy(cs, pen) == [i \in 1..Len(cs) |-> cs[i] + pen[2 - (i % 2)]]

\* the group size of a relative command in numbers
GroupLen(op) == IF op \in {"m", "l"} THEN 2 ELSE IF op = "c" THEN 6 ELSE 4

GroupOf(cs, op, k) == SubSeq(cs, GroupLen(op) * (k - 1) + 1, GroupLen(op) * k)

\* C19: in a relative command of several groups every coordinate is offset
\* from the pen as it stood before the command, never from the preceding
\* point of the command: for m, l, c and s every pair p becomes p + pen, for
\* h and v every value is added to the matching axis of the pen and the other
\* axis is the pen's; the pen is updated once, to the last end point.
C19_RelativeToPenBefore ==
    /\ [][Runs({"m", "l", "c", "s"}) =>
            /\ Len(Emitted) * GroupLen(NextOp(pst)) = Len(CommandNumbers(pst))
            /\ \A k \in 1..Len(Emitted) :
                  Written(NextOp(pst), Emitted[k])
                      = OffsetBy(GroupOf(CommandNumbers(pst), NextOp(pst), k), pst.pen)
            /\ pst'.pen = IF Emitted = <<>> THEN pst.pen
                          ELSE SubSeq(Emitted[Len(Emitted)].args,
                                      Len(Emitted[Len(Emitted)].args) - 1,
                                      Len(Emitted[Len(Emitted)].args))]_vars
    /\ [][Runs({"h"}) =>
            /\ Emitted = [k \in 1..Len(CommandNumbers(pst)) |->
                            LineTo(Pt(CommandNumbers(pst)[k] + pst.pen[1], pst.pen[2]))]
            /\ pst'.pen = Last(Emitted, LineTo(pst.pen)).args]_vars
    /\ [][Runs({"v"}) =>
            /\ Emitted = [k \in 1..Len(CommandNumbers(pst)) |->
                            LineTo(Pt(pst.pen[1], CommandNumbers(pst)[k] + pst.pen[2]))]
            /\ pst'.pen = Last(Emitted, LineTo(pst.pen)).args]_vars

\* M1,2 c1,0 2,0 3,0 1,1 2,1 3,1: both curves of the c are offset by (1,2)
C19_Witness ==
    /\ pd = ExRelCubic
    /\ pst.status = "done"
    /\ phist = <<[op |-> "M", n |-> 1], [op |-> "c", n |-> 2]>>
    /\ pst.out[3] = CubeTo(Pt(Num(2), Num(3)), Pt(Num(3), Num(3)), Pt(Num(4), Num(3)))
    /\ pst.pen = Pt(Num(4), Num(3))

\* C20: in an S/s command of more than one group, the ctrl1 of every group
\* is the mirror image of the preceding segment's second control point
\* about the pen at the start of that group: for the second and later
\* groups 2 * (end point of the previous group) - (ctrl2 of the previous
\* group).
C20_SmoothGroups ==
    [][Runs({"S", "s"}) =>
         \A k \in 2..Len(Emitted) :
            SubSeq(Emitted[k].args, 1, 2)
                = Sub(Mul(SubSeq(Emitted[k - 1].args, 5, 6), 2),
                      SubSeq(Emitted[k - 1].args, 3, 4))]_vars

(***************************************************************************)
(* Errors of the path compiler (SpecPath).                                 *)
(***************************************************************************)
PairLetters == {"M", "m", "L", "l", "C", "c", "S", "s"}

\* the text from the command read by the step onward
Fragment == TrimLeft(pst.cmds, Seps)

\* C21: for every M, m, L, l, C, c, S or s command with an odd number of
\* scanned coordinates the path compiler returns a malformed-path-data error
\* that quotes the text from that command onward and emits no op for the
\* command; H, h, V and v commands accept any number of values.
C21_OddCoordinates ==
    /\ [][(/\ pst.status = "run" /\ NextOp(pst) \in PairLetters
           /\ Len(CommandNumbers(pst)) % 2 = 1) =>
            /\ pst'.status = "error"
            /\ pst'.err = Err("odd number of coordinates in <path> data", Fragment)
            /\ pst'.out = pst.out]_vars
    /\ [][(pst.status = "run" /\ NextOp(pst) \in {"H", "h", "V", "v"}) =>
            /\ pst'.status = "run"
            /\ Len(Emitted) = Len(CommandNumbers(pst))]_vars

\* M1,2 L5: the L fails after the M was written
C21_Witness ==
    /\ pd = <<"M", "1", ",", "2", "L", "5">>
    /\ pst.status = "error"
    /\ pst.err = Err("odd number of coordinates in <path> data", <<"L", "5">>)
    /\ pst.out = <<MoveTo(Pt(Num(1), Num(2)))>>

\* the number of pairs of the command read by the step
Pairs == Len(CommandNumbers(pst)) \div 2

\* C22: a C/c command whose number of pairs is not a multiple of three, and
\* an S/s command whose number of pairs is not a multiple of two, returns a
\* path-syntax error; the compiler never aborts abnormally and never emits a
\* CubeTo built from an incomplete group.
C22_GroupArity ==
    /\ [][(/\ pst.status = "run" /\ NextOp(pst) \in {"C", "c", "S", "s"}
           /\ Len(CommandNumbers(pst)) % 2 = 0
           /\ \/ NextOp(pst) \in {"C", "c"} /\ Pairs % 3 /= 0
              \/ NextOp(pst) \in {"S", "s"} /\ Pairs % 2 /= 0) =>
            /\ pst'.status = "error"
            /\ pst'.out = pst.out]_vars
    /\ [](pst.status /= "panic")

AllLetters == CommandLetters \cup {"Z", "z"}

\* C23: whenever the character at a command position (after the spaces,
\* commas, tabs and newlines before it) is none of M m L l H h V v C c S s Z z,
\* the arc command and any text at which a coordinate scan stopped included,
\* the path compiler returns an unknown-command error that holds that
\* character and the text from it onward, and processes nothing after it.
C23_UnknownCommand ==
    /\ [][(pst.status = "run" /\ NextOp(pst) \notin AllLetters \cup {""}) =>
            /\ pst'.status = "error"
            /\ pst'.err = Err("unknown <path> command", Fragment)
            /\ pst'.err.text[1] = NextOp(pst)
            /\ pst'.out = pst.out]_vars
    /\ [][pst.status = "error" => pst' = pst]_vars
    /\ [](pst.status = "error" => printPathCommands(pd) = pst)

\* M1,2 a1,1 0 0 1 2,2 L3,3 fails at the arc, after the M and before the L
C23_Witness ==
    /\ pd = ExArc
    /\ pst.status = "error"
    /\ pst.err = Err("unknown <path> command", SubSeq(ExArc, 6, Len(ExArc)))
    /\ pst.out = <<MoveTo(Pt(Num(1), Num(2)))>>

\* the end point of an op: its last two numbers
EndPoint(ins) == SubSeq(ins.args, Len(ins.args) - 1, Len(ins.args))

\* C24: after every completely processed command the pen is the end point of
\* the last emitted MoveTo, LineTo or CubeTo, and the origin if no op has
\* been emitted.
C24_PenInvariant ==
    pst.status \in {"run", "done"} =>
        pst.pen = IF pst.out = <<>> THEN Pt(0, 0) ELSE EndPoint(pst.out[Len(pst.out)])

\* after M0,0 C1,1 2,1 3,0 S4,1 5,0 the pen is (5,0), the end of the last CubeTo
C24_Witness ==
    /\ pd = ExSmooth
    /\ pst.status = "done"
    /\ Len(pst.out) = 3
    /\ pst.out[3].op = "CubeTo"
    /\ pst.pen = Pt(Num(5), 0)

(***************************************************************************)
(* Polygons and polylines (SpecPoly).                                      *)
(***************************************************************************)
PolyCalled == arg.fn = "poly" /\ res.done

\* the ops written after the Begin of the shape's block, the End excluded
AfterBegin(w, b) ==
    SubSeq(w, b + 1, Len(w) - Cardinality({i \in (b + 1)..Len(w) :
                                              \E j \in (b + 1)..i : w[j].op = "End"}))

PathOps(w) ==
    IF Count(w, "Begin") = 0 THEN <<>>
    ELSE AfterBegin(w, CHOOSE b \in 1..Len(w) : w[b].op = "Begin")

\* vertex k of the numbers ts
Vertex(ts, k) == Pt(CoefValue(ts[2 * k - 1]), CoefValue(ts[2 * k]))

\* MoveTo(v1), LineTo(v2) .. LineTo(vn)
Outline(ts) ==
    [k \in 1..(Len(ts) \div 2) |->
        IF k = 1 THEN MoveTo(Vertex(ts, 1)) ELSE LineTo(Vertex(ts, k))]

\* C25: for a polygon or polyline with vertices v1..vn (n >= 2) the converter
\* emits MoveTo(v1) then LineTo(v2)..LineTo(vn); a polygon appends one more
\* LineTo(v1) if and only if vn differs from v1, never a Close op; a polyline
\* appends nothing.
C25_PolyOutline ==
    (PolyCalled /\ Len(arg.tokens) % 2 = 0 /\ Len(arg.tokens) >= 4) =>
        /\ res.val.result = "run"
        /\ PathOps(res.val.w)
              = Outline(arg.tokens)
                  \o Opt(/\ arg.tag = "polygon"
                         /\ Vertex(arg.tokens, Len(arg.tokens) \div 2)
                               /= Vertex(arg.tokens, 1),
                         LineTo(Vertex(arg.tokens, 1)))
        /\ Count(res.val.w, "Close") = 0

\* the polygon 0 0 1 0 1 1 is closed by LineTo(0,0)
C25_Witness ==
    /\ PolyCalled
    /\ arg.tag = "polygon"
    /\ arg.tokens = <<<<"0">>, <<"0">>, <<"1">>, <<"0">>, <<"1">>, <<"1">>>>
    /\ PathOps(res.val.w)
          = <<MoveTo(Pt(0, 0)), LineTo(Pt(Num(1), 0)), LineTo(Pt(Num(1), Num(1))),
              LineTo(Pt(0, 0))>>

\* C26: a polygon or polyline whose points attribute holds fewer than two
\* coordinate pairs (no pair, or exactly one pair) yields an empty path
\* program with no MoveTo and no LineTo, and this is not an error.
C26_FewerThanTwoPairs ==
    (PolyCalled /\ Len(arg.tokens) \in {0, 2}) =>
        /\ res.val.result = "run"
        /\ PathOps(res.val.w) = <<>>

\* C27: a painted polygon or polyline whose points attribute holds an odd
\* number of numbers makes the compile fail with an attribute error value;
\* the converter never reads a coordinate past the end of the list and never
\* emits a program from an odd-length list.
C27_OddPoints ==
    /\ (PolyCalled /\ Len(arg.tokens) % 2 = 1) =>
          /\ res.val.result = "error"
          /\ Count(res.val.w, "Begin") = 0
    /\ (PolyCalled => res.val.result /= "panic")

(***************************************************************************)
(* Number lists (SpecPoints).                                              *)
(***************************************************************************)
\* the number one of ListNums spells
ListValue(t) ==
    IF t = <<"1">> THEN Num(1)
    ELSE IF t = <<"2", "4">> THEN Num(24)
    ELSE 0 - (Num(1) + Unit \div 2)

\* C28: number-list scanning skips the whitespace and commas before every
\* token: lists of the same numbers that differ only in their separators (a
\* space, a comma, a comma and a space, several spaces, leading or trailing
\* spaces) parse to the same number sequence, the numbers of the list.
C28_Separators ==
    (arg.fn = "points" /\ res.done) =>
        /\ res.val.err = NoErr
        /\ res.val.p = [k \in 1..Len(arg.tokens) |-> ListValue(arg.tokens[k])]

(***************************************************************************)
(* Single numbers (SpecFloat).                                             *)
(***************************************************************************)
\* the end of the longest prefix of s of the grammar: an optional leading
\* '-', then digits with at most one '.'
RECURSIVE GrammarEnd(_, _, _)
GrammarEnd(s, n, dot) ==
    IF n < Len(s) /\ IsDigit(s[n + 1]) THEN GrammarEnd(s, n + 1, dot)
    ELSE IF n < Len(s) /\ s[n + 1] = "." /\ ~dot THEN GrammarEnd(s, n + 1, TRUE)
    ELSE n

TokenEnd(s) == GrammarEnd(s, IF s /= <<>> /\ s[1] = "-" THEN 1 ELSE 0, FALSE)

\* s begins with a token: the prefix holds a digit
BeginsWithToken(s) == \E i \in 1..TokenEnd(s) : IsDigit(s[i])

\* C29: for every text that begins with a token of the grammar (optional
\* leading '-', digits, at most one '.', no exponent) the scanner succeeds
\* and returns as consumed length the length of the longest prefix of the
\* grammar, with its value, and leaves the rest (a second '.' and the digits
\* after it, or a '-') to start the next token.
C29_TokenGrammar ==
    (arg.fn = "parseFloat" /\ res.done /\ BeginsWithToken(arg.s)) =>
        /\ res.val.ok
        /\ res.val.n = TokenEnd(arg.s)
        /\ res.val.x = ParseFloat(SubSeq(arg.s, 1, TokenEnd(arg.s))).x

(***************************************************************************)
(* Scopes (SpecScope).                                                     *)
(***************************************************************************)
\* the scopes opened by open and not yet closed by close after w[1..k]
OpenAt(w, k, open, close) ==
    Cardinality({i \in 1..k : w[i].op = open}) - Cardinality({i \in 1..k : w[i].op = close})

\* C30: in every instruction sequence the walker has produced when it
\* returns, with success or with an error raised while a shape's path is
\* compiled, every transform push is matched by a later pop, every begun
\* path is ended before that pop, and at most one transform scope is open at
\* any time.
C30_ScopesClosed ==
    (arg.fn = "scope" /\ res.done) =>
        /\ OpenAt(res.val.w, Len(res.val.w), "Push", "Pop") = 0
        /\ OpenAt(res.val.w, Len(res.val.w), "Begin", "End") = 0
        /\ \A k \in 1..Len(res.val.w) :
              /\ OpenAt(res.val.w, k, "Push", "Pop") \in {0, 1}
              /\ OpenAt(res.val.w, k, "Begin", "End") \in {0, 1}
              /\ res.val.w[k].op = "Pop" => OpenAt(res.val.w, k, "Begin", "End") = 0

====
